---------------------------- MODULE Spec2Model ----------------------------
(***************************************************************************)
(* Model of the vibro-diagnosys test engines (core/mols_test.py,           *)
(* core/spatial_test.py, core/pmpwm_test.py), the hardware port            *)
(* (core/serial_api.py) and the GUI context that supervises them           *)
(* (gui/main_window.py and the three probe windows).                       *)
(*                                                                         *)
(* Every QThread worker ever created is an element of the sequence         *)
(* `workers`; MainWindow.worker is the index `cur`.  A worker advances one *)
(* statement that touches shared state (the _stop flag, the answer slot,   *)
(* the results dictionary, the serial port, a signal emission) per step.   *)
(* Signals emitted by a worker are queued to the GUI thread (evq) and      *)
(* handled by the GUI event loop, one whole slot per step.  A GUI handler  *)
(* that calls QThread.wait(1000) blocks the GUI thread: its continuation   *)
(* runs when the worker has returned from run() or when the waiting time   *)
(* is used up by the worker's sleeps.  Times are in milliseconds.          *)
(***************************************************************************)
EXTENDS Integers, Sequences, FiniteSets, TLC

\* ------------------------------------------------------------------------
\* Bounds of the model
\* ------------------------------------------------------------------------
MaxWorkers == 2          \* worker threads created in one discrimination test
MaxMotorEnd == 1         \* num_motor_end of the discrimination test (start 0, step 1)
MaxSamples == 3          \* max_counter_samples of the spatial test
MaxRegions == 3          \* regions of the spatial sequences that are enumerated
MaxSeqSamples == 5       \* max_counter_samples of the enumerated spatial sequences
MaxTokens == 3           \* comma separated tokens typed into the intensity field
MaxLevels == 3           \* levels of the confusion matrices that are analysed
MaxPairs == 3            \* (true, pred) pairs of the spatial answers that are analysed

\* ------------------------------------------------------------------------
\* Program constants
\* ------------------------------------------------------------------------
n_motors == 10                 \* VibroBox.n_motors, hyps['n_motors']
TimeSleepParam == 250          \* hyps['time_sleep_param'] = 0.25 s
PMPauseAfterAnswer == 350      \* time.sleep(0.35) after a recorded answer
IndicatorVal == 20             \* begin_end_indicator(val=20)
IndicatorRepeats == 2          \* begin_end_indicator(repeats=2)
IndicatorPause == 250          \* begin_end_indicator(pause=.25)
WaitMs == 1000                 \* worker.wait(1000)
MolsExposure == 500            \* MolsWorker._probe: time.sleep(0.5)
MolsPauseAfterAnswer == 350    \* MolsWorker._probe: time.sleep(0.35)
MolsPauseAfterPass == 500      \* MolsWorker.run: time.sleep(0.5)
SpatialPauseAfterAnswer == 500 \* SpatialWorker.run: time.sleep(0.5)

None == 0                      \* the empty answer slot (None / '')

\* ------------------------------------------------------------------------
\* Helpers on sequences
\* ------------------------------------------------------------------------
Range(s) == {s[i] : i \in DOMAIN s}

Bijections(n) == {p \in [1..n -> 1..n] : \A i, j \in 1..n : p[i] = p[j] => i = j}

\* random.shuffle(seq): every arrangement of the list can result
Shuffles(s) == {[i \in 1..Len(s) |-> s[p[i]]] : p \in Bijections(Len(s))}

\* list * k
RECURSIVE Repeat(_, _)
Repeat(s, k) == IF k <= 0 THEN <<>> ELSE s \o Repeat(s, k - 1)

\* range(a, b, step) for step > 0
RECURSIVE PyRange(_, _, _)
PyRange(a, b, step) == IF a >= b THEN <<>> ELSE <<a>> \o PyRange(a + step, b, step)

\* np.arange(a, b, step) for step # 0
RECURSIVE arange(_, _, _)
arange(a, b, step) ==
    IF (step > 0 /\ a >= b) \/ (step < 0 /\ a <= b) THEN <<>>
    ELSE <<a>> \o arange(a + step, b, step)

\* a sample that draws nothing
NoSamples(s, r) == {<<>>}

\* random.sample(s, r): r elements at distinct positions of s
Samples(s, r) == {[i \in 1..r |-> s[p[i]]] :
                    p \in {q \in [1..r -> DOMAIN s] : \A i, j \in 1..r : q[i] = q[j] => i = j}}

Abs(x) == IF x < 0 THEN -x ELSE x

\* list.index(x) + 1 : the 1-based position of the first occurrence
IndexOf(s, x) == CHOOSE i \in DOMAIN s : s[i] = x /\ \A j \in 1..(i - 1) : s[j] # x

RECURSIVE SumSeq(_)
SumSeq(s) == IF s = <<>> THEN 0 ELSE Head(s) + SumSeq(Tail(s))

RECURSIVE SumLens(_, _)
SumLens(f, S) == IF S = {} THEN 0
                 ELSE LET m == CHOOSE x \in S : TRUE
                      IN Len(f[m]) + SumLens(f, S \ {m})

\* ------------------------------------------------------------------------
\* Configuration (core/config.py as edited by the hyperparameter dialogs)
\* ------------------------------------------------------------------------
\* `kind` is the test the operator has started; the other fields are hyps[...]
PMHyps == [kind |-> "pmpwm",
           num_motor_start |-> 0, num_motor_end |-> MaxMotorEnd, use_motors_step |-> 1,
           pmpwm_pwm_values |-> <<14, 22>>, pmpwm_repeats |-> 1]

\* spatial test, regions of two motors: uses = [0, 2]
SpatialPairsHyps == [kind |-> "spatial", spatial_mode |-> "pairs",
                     num_motor_start |-> 0, num_motor_end |-> 4, use_motors_step |-> 2,
                     max_counter_samples |-> MaxSamples, spatial_pwm |-> 30]

\* spatial test, single motors: uses = [0, 1]
SpatialSingleHyps == [kind |-> "spatial", spatial_mode |-> "single",
                      num_motor_start |-> 0, num_motor_end |-> 1, use_motors_step |-> 1,
                      max_counter_samples |-> MaxSamples - 1, spatial_pwm |-> 30]

\* spatial test with no region: uses = []
SpatialEmptyHyps == [SpatialPairsHyps EXCEPT !.num_motor_end = 0]

\* threshold test of one motor, one pass down and one pass up
MolsHyps == [kind |-> "mols",
             num_motor_start |-> 0, num_motor_end |-> 0, use_motors_step |-> 1,
             exps_for_each_motor |-> 1,
             end_pwm_down |-> 0, delta_pwm_down |-> -10,
             end_pwm_up |-> 8, delta_pwm_up |-> 3]

\* threshold configurations the dialog produces: end_pwm_down = -|4| with a step
\* of 5; the motors 0 and 2, and four passes on one motor, both with no
\* ascending intensity below end_pwm_up
MolsBelowZeroHyps == [MolsHyps EXCEPT !.end_pwm_down = -4, !.delta_pwm_down = -5]
MolsTwoMotorsHyps == [MolsHyps EXCEPT !.num_motor_end = 2, !.use_motors_step = 2,
                                      !.delta_pwm_down = -15, !.end_pwm_up = 0]
MolsFourPassesHyps == [MolsHyps EXCEPT !.exps_for_each_motor = 2,
                                       !.delta_pwm_down = -15, !.end_pwm_up = 0]
MolsHypsSet == {MolsHyps, MolsBelowZeroHyps, MolsTwoMotorsHyps, MolsFourPassesHyps}

\* the tokens of the intensity field le_pwms after txt.split(','): an integer
\* literal, a blank token (skipped by `if x.strip()`), a token int() rejects
Tokens == {[kind |-> "int", val |-> v] : v \in {14, 22, 36}}
          \cup {[kind |-> "blank", val |-> 0], [kind |-> "bad", val |-> 0]}
Texts == UNION {[1..n -> Tokens] : n \in 0..MaxTokens}

\* a list in descending order
RECURSIVE SortedDown(_)
SortedDown(S) ==
    IF S = {} THEN <<>>
    ELSE LET m == CHOOSE x \in S : \A y \in S : y <= x
         IN <<m>> \o SortedDown(S \ {m})

\* sorted(set(pwms))
RECURSIVE Sorted(_)
Sorted(S) ==
    IF S = {} THEN <<>>
    ELSE LET m == CHOOSE x \in S : \A y \in S : x <= y
         IN <<m>> \o Sorted(S \ {m})

\* PMPWMHyperparamsDialog.get_hyps, the intensity list: int() of every non-blank
\* token, sorted(set(...)); a token that is no integer or an empty list raises,
\* and the list falls back to the one the dialog was opened with
ParsePwms(txt, old) ==
    LET ints == {txt[i].val : i \in {j \in DOMAIN txt : txt[j].kind = "int"}}
    IN IF (\E i \in DOMAIN txt : txt[i].kind = "bad") \/ ints = {}
       THEN old
       ELSE Sorted(ints)

\* the configurations the dialog returns for motor 0 with one presentation a level
PMDialogHypsSet ==
    {[PMHyps EXCEPT !.num_motor_end = 0,
                    !.pmpwm_pwm_values = ParsePwms(txt, PMHyps.pmpwm_pwm_values)] :
        txt \in Texts}

\* discrimination test on motor 0 alone with every level presented twice
PMRepeatHyps == [PMHyps EXCEPT !.num_motor_end = 0, !.pmpwm_repeats = 2]

\* discrimination test with one intensity: one stimulus per motor
PMOneLevelHyps == [PMHyps EXCEPT !.pmpwm_pwm_values = <<14>>]

HypsSet == {PMHyps, PMRepeatHyps, SpatialPairsHyps, SpatialSingleHyps, SpatialEmptyHyps,
            MolsHyps}

VARIABLES
    hyps,               \* MainWindow.hyps of the running test
    workers,            \* every worker thread created so far
    cur,                \* MainWindow.worker (index into workers, 0 = None)
    port,               \* intensities last written to the device
    staleCmd,           \* a worker that was no longer the newest one wrote to the port
    gui,                \* "idle" (event loop) | "wait" (inside QThread.wait) | "crashed"
    cont,               \* continuation of the handler blocked in wait
    waitLeft,           \* milliseconds left of the wait
    evq,                \* queued signal deliveries to the GUI thread
    probeOpen,          \* the probe window is shown
    trainOpen,          \* the training window is shown
    motors_all,         \* MainWindow.motors_all
    motors_completed,   \* MainWindow.motors_completed
    results_pmpwm,      \* MainWindow.results_pmpwm: motor -> reference <<worker, motor>>
    pending,            \* MainWindow._pending_queue
    current_motor,      \* PMPWMProbeWindow._current_motor (-1 = None)
    finishShown,        \* btn_finish is visible
    timers,             \* pending QTimer.singleShot(600, reset_pwm_values) calls
    res,                \* the result dict built by MainWindow._finish_pmpwm
    ser,                \* VibroBox.ser: the serial port is open and the device is there
    cm,                 \* analyse_cm: the confusion matrix passed in
    pwm_vals,           \* analyse_cm: the intensity list passed in
    answers,            \* analyse_spatial: the (true, pred) pairs passed in
    ret,                \* the value the analysis call returned
    seen,               \* an earlier analysis call: its arguments and its result
    sel,                \* generate_summary: the files selected in the analysis dialog
    out                 \* generate_summary: the summary written, or the exception raised

vars == <<hyps, workers, cur, port, staleCmd, gui, cont, waitLeft, evq, probeOpen,
          trainOpen, timers, motors_all, motors_completed, results_pmpwm, pending,
          current_motor, finishShown, res, ser, cm, pwm_vals, answers, ret, seen, sel, out>>

\* worker threads created in one test: the schedule of one stimulus per motor
\* leaves room for one more
WorkerCap == IF hyps = PMOneLevelHyps THEN MaxWorkers + 1 ELSE MaxWorkers

\* the arguments and the result of the analysis functions (core/*_analysis.py)
anVars == <<cm, pwm_vals, answers, ret, seen, sel, out>>

\* no analysis function is called
NoReport == sel = <<>> /\ out = <<>>
NoAnalysis ==
    cm = <<>> /\ pwm_vals = <<>> /\ answers = <<>> /\ ret = <<>> /\ seen = <<>> /\ NoReport

supVars == <<motors_all, motors_completed, results_pmpwm, pending, current_motor,
             finishShown>>
NoneMotor == -1              \* the motor index None

\* ------------------------------------------------------------------------
\* Hardware port (core/serial_api.py)
\* ------------------------------------------------------------------------
Motors == 0..(n_motors - 1)
Zeros == [m \in Motors |-> 0]
AllAt(v) == [m \in Motors |-> v]
\* an array that energizes every motor
EveryAt(m, v) == AllAt(v)

\* arr = np.zeros(n); arr[m] = v   (numpy: arr[None] = v assigns every element)
OneAt(m, v) == [k \in Motors |-> IF k = m \/ m = NoneMotor THEN v ELSE 0]

\* a reset that leaves the motors energized
reset_array_stuck == AllAt(1)

\* VibroBox.reset_pwm_values: the array it writes
reset_array == Zeros

CmdKind(arr) == IF arr = Zeros THEN "zero" ELSE "on"

\* VibroBox._write_array: np.array(arr, dtype=np.uint8).tobytes(), one byte a motor
write_array(arr) == [i \in DOMAIN arr |-> arr[i] % 256]

\* ------------------------------------------------------------------------
\* Worker records
\* ------------------------------------------------------------------------
EntryPc(kind) == CASE kind = "pmpwm" -> "pm_motor"
                   [] kind = "spatial" -> "sp_begin"
                   [] kind = "mols" -> "ml_motor"

\* self._answer = None  /  _patient_answer = ''
EmptySlot(kind) == IF kind = "mols" THEN "" ELSE None

NewWorker(kind, motors) ==
    [kind |-> kind, pc |-> EntryPc(kind), stop |-> FALSE, answer |-> EmptySlot(kind),
     motors |-> motors, mi |-> 1, seq |-> <<>>, si |-> 0, ic |-> 0,
     results |-> <<>>, rem |-> 0,
     answers |-> <<>>,         \* SpatialWorker: answers
     streams |-> <<>>, di |-> 0, positive |-> "-",     \* MolsWorker: the pass
     ei |-> 0,                 \* SpatialWorker: motors of the region energized so far
     \* history of the run, read by the properties only
     fresh |-> FALSE,          \* the slot was written after it was cleared for the
                               \* stimulus presented last
     stopAt |-> "-",           \* where the worker was when stop() was called
     lastCmd |-> "none",       \* its last hardware command: "zero" | "on"
     indAfterStop |-> FALSE,   \* it began an end indicator with _stop set
     indicated |-> FALSE,      \* it has fired the end indicator since its last stimulus
     stims |-> 0,              \* stimuli it has presented
     discarded |-> FALSE,      \* a written slot was cleared unread
     by |-> "start",           \* the handler that launched it
     shown |-> <<>>,           \* per motor: the stimuli presented on it (pmpwm)
     results_mean |-> <<>>,    \* the result a threshold run emits with finished
     emitted |-> FALSE,        \* it has emitted finished
     exit |-> "-"]

W(w) == workers[w]
isRunning(w) == W(w).pc # "done"
Latest == Len(workers)

\* number of Trials the worker has recorded
Trials(r) == SumLens(r.results, DOMAIN r.results) + Len(r.answers)

\* ------------------------------------------------------------------------
\* Time: sleeps of a worker while the GUI thread is inside wait(1000) on it
\* ------------------------------------------------------------------------
\* duration of the sleep the worker is in (0: not at a sleep)
SleepDur(r) ==
    CASE r.pc = "pm_sleep" -> TimeSleepParam
      [] r.pc = "pm_pause" -> PMPauseAfterAnswer
      [] r.pc = "sp_sleep" -> TimeSleepParam
      [] r.pc = "sp_pause" -> SpatialPauseAfterAnswer
      [] r.pc = "ml_sleep" -> MolsExposure
      [] r.pc = "ml_pause" -> MolsPauseAfterAnswer
      [] r.pc = "ml_after_ind" -> MolsPauseAfterPass
      [] r.pc = "ind" /\ r.ic > 0 -> IndicatorPause
      [] OTHER -> 0

\* what may be left of that sleep when the GUI starts to wait: nearly nothing, or all
RemChoices(r) == IF SleepDur(r) = 0 THEN {0} ELSE {50, SleepDur(r)}

SleepNeed(r) == IF r.rem > 0 THEN r.rem ELSE SleepDur(r)

Waited(w) == gui = "wait" /\ cont.w = w

\* the worker finishes its sleep; every statement costs time, so a sleep that
\* needs all that is left of the wait does not end within it
Sleeps(w) ==
    IF Waited(w)
    THEN /\ SleepNeed(W(w)) < waitLeft
         /\ waitLeft' = waitLeft - SleepNeed(W(w))
    ELSE waitLeft' = waitLeft

Alive == gui # "crashed"

\* frame of a worker step
WorkerFrame == UNCHANGED <<anVars, res, ser, hyps, cur, gui, cont, probeOpen, trainOpen, timers, supVars>>
NoHw == UNCHANGED <<port, staleCmd>>
NoSleep == UNCHANGED waitLeft
NoEmit == UNCHANGED evq

\* a write of the worker to the serial port: _write_array raises without a port
Hw(w, arr) == ser /\ port' = write_array(arr) /\ staleCmd' = (staleCmd \/ w # Latest)
SetW(w, r) == workers' = [workers EXCEPT ![w] = r]
Emit(e) == evq' = Append(evq, e)

\* ------------------------------------------------------------------------
\* begin_end_indicator as called by a worker:
\*   for _ in range(repeats): set all; sleep(pause); reset; sleep(pause)
\* ic counts the commands issued; each step but the first starts by ending a sleep
\* ------------------------------------------------------------------------
\* an indicator that ends on its last pulse, without the reset after it
IndCmdsOdd == 2 * IndicatorRepeats - 1

IndCmds == 2 * IndicatorRepeats

AfterIndicatorPc(kind) == IF kind = "pmpwm" THEN "pm_result" ELSE "ml_after_ind"

IndOn(w) ==
    /\ Alive /\ W(w).pc = "ind" /\ W(w).ic < IndCmds /\ W(w).ic % 2 = 0
    /\ IF W(w).ic = 0 THEN NoSleep ELSE Sleeps(w)
    /\ Hw(w, AllAt(IndicatorVal))
    /\ SetW(w, [W(w) EXCEPT !.ic = @ + 1, !.rem = 0,
                            !.lastCmd = CmdKind(AllAt(IndicatorVal)),
                            !.indAfterStop = @ \/ W(w).stop])
    /\ NoEmit /\ WorkerFrame

IndOff(w) ==
    /\ Alive /\ W(w).pc = "ind" /\ W(w).ic < IndCmds /\ W(w).ic % 2 = 1
    /\ Sleeps(w)
    /\ Hw(w, reset_array)
    /\ SetW(w, [W(w) EXCEPT !.ic = @ + 1, !.rem = 0, !.lastCmd = CmdKind(reset_array)])
    /\ NoEmit /\ WorkerFrame

\* the last sleep(pause) ends: begin_end_indicator returns
IndReturn(w) ==
    /\ Alive /\ W(w).pc = "ind" /\ W(w).ic = IndCmds
    /\ Sleeps(w)
    /\ SetW(w, [W(w) EXCEPT !.pc = AfterIndicatorPc(W(w).kind), !.ic = 0, !.rem = 0,
                            !.indicated = TRUE])
    /\ NoHw /\ NoEmit /\ WorkerFrame

\* ------------------------------------------------------------------------
\* PMPWMWorker.run (core/pmpwm_test.py)
\* ------------------------------------------------------------------------
PMMotor(r) == r.motors[r.mi]
\* a level that is the first one for every intensity
FirstLevel(pwm_values, pwm) == 1

\* true_level = pwm_values.index(pwm) + 1
TrueLevel(pwm_values, pwm) == IndexOf(pwm_values, pwm)

\* for motor in self.motors: seq = pwm_values * repeats; shuffle; results[motor] = []
\* (after the last motor: begin_end_indicator)
PMBeginMotor(w) ==
    /\ Alive /\ W(w).pc = "pm_motor"
    /\ IF W(w).mi > Len(W(w).motors)
       THEN SetW(w, [W(w) EXCEPT !.pc = "ind", !.ic = 0])
       ELSE \E s \in Shuffles(Repeat(hyps.pmpwm_pwm_values, hyps.pmpwm_repeats)) :
              SetW(w, [W(w) EXCEPT
                         !.seq = s, !.si = 1, !.pc = "pm_set",
                         !.shown = [m \in DOMAIN W(w).shown \cup {PMMotor(W(w))} |->
                                      IF m = PMMotor(W(w)) THEN 0 ELSE W(w).shown[m]],
                         !.results = [m \in DOMAIN W(w).results \cup {PMMotor(W(w))} |->
                                        IF m = PMMotor(W(w)) THEN <<>> ELSE W(w).results[m]]])
    /\ NoHw /\ NoSleep /\ NoEmit /\ WorkerFrame

\* self.progress.emit(motor, step_local, local_total): progress is a
\* pyqtSignal(int, int, int), so the motor None raises TypeError in run(), an
\* exception that leaves the thread aborts the application;
\* arr[motor] = pwm; self.vibro.set_pwm_values(arr)
PMSet(w) ==
    /\ Alive /\ W(w).pc = "pm_set"
    /\ IF PMMotor(W(w)) = NoneMotor
       THEN /\ gui' = "crashed"
            /\ UNCHANGED <<anVars, res, ser, hyps, workers, cur, port, staleCmd, cont, waitLeft, evq,
                           probeOpen, trainOpen, timers, supVars>>
       ELSE /\ Emit([sig |-> "progress", w |-> w, motor |-> PMMotor(W(w))])
            /\ Hw(w, OneAt(PMMotor(W(w)), W(w).seq[W(w).si]))
            /\ SetW(w, [W(w) EXCEPT
                          !.pc = "pm_sleep", !.fresh = FALSE,
                          !.indicated = FALSE, !.stims = @ + 1,
                          !.shown[PMMotor(W(w))] = @ + 1,
                          !.lastCmd = CmdKind(OneAt(PMMotor(W(w)), W(w).seq[W(w).si]))])
            /\ NoSleep /\ WorkerFrame

\* a wait that starts without clearing the slot
KeptSlot(r) == r

\* a worker that does not look at the flag after the wait
StopIgnored(r) == FALSE

\* self._answer = None  /  self._patient_answer = ''
ClearedSlot(r) == [r EXCEPT !.answer = EmptySlot(r.kind), !.fresh = FALSE,
                            !.discarded = @ \/ r.answer # EmptySlot(r.kind)]

\* if self._stop:
StopSeen(r) == r.stop

\* time.sleep(h.get('time_sleep_param', 0.25)) ends; self.vibro.reset_pwm_values();
\* self._answer = None; self.awaitingAnswer.emit()
PMExpose(w) ==
    /\ Alive /\ W(w).pc = "pm_sleep"
    /\ Sleeps(w)
    /\ Hw(w, reset_array)
    /\ SetW(w, [ClearedSlot(W(w)) EXCEPT !.pc = "pm_poll", !.rem = 0,
                                           !.lastCmd = CmdKind(reset_array)])
    /\ NoEmit /\ WorkerFrame

\* (true_level, int(self._answer)) with true_level = pwm_values.index(pwm) + 1
PMTrial(r) == <<TrueLevel(hyps.pmpwm_pwm_values, r.seq[r.si]), r.answer>>

\* a recording that stores the trial twice
AppendTwice(list, trial) == Append(Append(list, trial), trial)

\* self.results[motor].append((true_level, int(self._answer)))
Appended(list, trial) == Append(list, trial)

\* a response wait that gives up after a while, whatever the slot holds
PollTimesOut(r) == TRUE

\* a response wait that looks at the slot only
WaitIgnoresStop(r) == FALSE

\* the `and not self._stop` of the response wait
StopEndsWait(r) == r.stop

\* the condition that ends `while <slot is empty> and not self._stop: self.msleep(..)`
PollEnds(r) == r.answer # EmptySlot(r.kind) \/ StopEndsWait(r)

\* the loop `while self._answer is None and not self._stop: self.msleep(10)` ends;
\* if self._stop: reset_pwm_values(); return
\* else: self.results[motor].append(trial)
PMAnswered(w) ==
    /\ Alive /\ W(w).pc = "pm_poll"
    /\ PollEnds(W(w))
    /\ IF StopSeen(W(w))
       THEN /\ Hw(w, reset_array)
            /\ SetW(w, [W(w) EXCEPT !.pc = "done", !.exit = "cancelled",
                                    !.lastCmd = CmdKind(reset_array)])
       ELSE /\ NoHw
            /\ SetW(w, [W(w) EXCEPT !.pc = "pm_pause",
                                    !.results[PMMotor(W(w))] = Appended(@, PMTrial(W(w)))])
    /\ NoSleep /\ NoEmit /\ WorkerFrame

\* time.sleep(0.35) ends: the next step of the motor, or self.motorFinished.emit(motor)
PMPause(w) ==
    /\ Alive /\ W(w).pc = "pm_pause"
    /\ Sleeps(w)
    /\ IF W(w).si < Len(W(w).seq)
       THEN /\ SetW(w, [W(w) EXCEPT !.pc = "pm_set", !.si = @ + 1, !.rem = 0])
            /\ NoEmit
       ELSE /\ SetW(w, [W(w) EXCEPT !.pc = "pm_motor", !.mi = @ + 1, !.rem = 0])
            /\ Emit([sig |-> "motorFinished", w |-> w, motor |-> PMMotor(W(w))])
    /\ NoHw /\ WorkerFrame

\* post-processing: 'accuracy': correct / len(answers) raises ZeroDivisionError
\* when no answer was recorded; otherwise self.finished.emit(result)
PMResult(w) ==
    /\ Alive /\ W(w).pc = "pm_result"
    /\ IF Trials(W(w)) = 0
       THEN /\ NoEmit
            /\ SetW(w, [W(w) EXCEPT !.pc = "done", !.exit = "error"])
       ELSE /\ Emit([sig |-> "finished", w |-> w, motor |-> NoneMotor])
            /\ SetW(w, [W(w) EXCEPT !.pc = "done", !.exit = "completed",
                                    !.emitted = TRUE])
    /\ NoHw /\ NoSleep /\ WorkerFrame

\* the worker is about to call set_pwm_values / reset_pwm_values
PMActuates(r) ==
    \/ r.pc = "pm_set" /\ PMMotor(r) # NoneMotor
    \/ r.pc = "pm_sleep"
    \/ r.pc = "pm_poll" /\ r.stop
    \/ r.pc = "ind" /\ r.ic < IndCmds

\* RuntimeError('VibroBox not connected') or the SerialException of ser.write
\* leaves set_pwm_values and run(), which has no handler
RaisedInRun(r) == [r EXCEPT !.pc = "done", !.exit = "error"]

\* an actuation call of PMPWMWorker.run without a port: VibroBox._write_array raises
\* (at pm_set after progress.emit); the exception leaves the thread
SerialFails(w) ==
    /\ Alive /\ ~ser
    /\ W(w).kind = "pmpwm" /\ PMActuates(W(w))
    /\ IF W(w).pc = "pm_sleep" \/ (W(w).pc = "ind" /\ W(w).ic > 0) THEN Sleeps(w) ELSE NoSleep
    /\ IF W(w).pc = "pm_set"
       THEN Emit([sig |-> "progress", w |-> w, motor |-> PMMotor(W(w))])
       ELSE NoEmit
    /\ SetW(w, RaisedInRun(W(w)))
    /\ gui' = "crashed"
    /\ NoHw
    /\ UNCHANGED <<anVars, res, ser, hyps, cur, cont, probeOpen, trainOpen, timers, supVars>>

\* the device is unplugged: every later write to the port fails
Unplug ==
    /\ Alive /\ ser
    /\ ser' = FALSE
    /\ UNCHANGED <<anVars, res, hyps, workers, cur, port, staleCmd, gui, cont, waitLeft, evq,
                   probeOpen, trainOpen, timers, supVars>>

PMStep(w) ==
    \/ PMBeginMotor(w) \/ PMSet(w) \/ PMExpose(w) \/ PMAnswered(w) \/ PMPause(w)
    \/ PMResult(w)

\* ------------------------------------------------------------------------
\* SpatialWorker.run (core/spatial_test.py)
\* ------------------------------------------------------------------------
\* uses: the first motors of the regions
SpatialUses(h) ==
    IF h.spatial_mode = "pairs"
    THEN PyRange(h.num_motor_start, h.num_motor_end, h.use_motors_step)
    ELSE PyRange(h.num_motor_start, h.num_motor_end + 1, 1)

\* q full copies of uses and r random further ones, shuffled
SpatialSeqs(h) ==
    LET uses == SpatialUses(h)
        q == h.max_counter_samples \div Len(uses)
        r == h.max_counter_samples % Len(uses)
    IN UNION {Shuffles(Repeat(uses, q) \o t) : t \in Samples(uses, r)}

\* motors = (m0, m0 + 1) | (m0,)
SpatialMotors(h, m0) == IF h.spatial_mode = "pairs" THEN <<m0, m0 + 1>> ELSE <<m0>>

\* true_region = (m0 - start) // step + 1
TrueRegion(h, m0) == (m0 - h.num_motor_start) \div h.use_motors_step + 1

\* an array that leaves the motor before mot energized
SpatialValsKept(h, mot) == [k \in Motors |-> IF k \in {mot - 1, mot} THEN h.spatial_pwm ELSE 0]

\* vals = np.zeros(n); if 0 <= mot < n_motors: vals[mot] = spatial_pwm
SpatialVals(h, mot) == IF 0 <= mot /\ mot < n_motors THEN OneAt(mot, h.spatial_pwm) ELSE Zeros

\* n_pairs of MainWindow._start_spatial_after_delay: the answer buttons 1..n_pairs
SpatialButtons(h) == 1..((h.num_motor_end - h.num_motor_start + 1) \div h.use_motors_step)

\* result = {'answers': answers, 'mode': mode}; self.finished.emit(result)
SPFinish(w, r, how) ==
    /\ Emit([sig |-> "finished", w |-> w, motor |-> NoneMotor])
    /\ SetW(w, [r EXCEPT !.pc = "done", !.exit = how, !.emitted = TRUE])

\* uses; if not uses: return; seq; random.shuffle(seq)
SPBegin(w) ==
    /\ Alive /\ W(w).pc = "sp_begin"
    /\ IF SpatialUses(hyps) = <<>>
       THEN SetW(w, [W(w) EXCEPT !.pc = "done", !.exit = "invalid"])
       ELSE \E s \in SpatialSeqs(hyps) :
              SetW(w, [W(w) EXCEPT !.seq = s, !.si = 1, !.pc = "sp_next"])
    /\ NoHw /\ NoSleep /\ NoEmit /\ WorkerFrame

\* for idx, m0 in enumerate(seq): if self._stop: break; progress.emit;
\* the first motor of the region is energized
SPNext(w) ==
    /\ Alive /\ W(w).pc = "sp_next"
    /\ IF W(w).si > Len(W(w).seq)
       THEN SPFinish(w, W(w), "completed") /\ NoHw
       ELSE IF StopSeen(W(w))
       THEN SPFinish(w, W(w), "cancelled") /\ NoHw
       ELSE /\ Emit([sig |-> "progress", w |-> w, motor |-> W(w).seq[W(w).si]])
            /\ Hw(w, SpatialVals(hyps, SpatialMotors(hyps, W(w).seq[W(w).si])[1]))
            /\ SetW(w, [W(w) EXCEPT
                          !.pc = "sp_sleep", !.ei = 1, !.fresh = FALSE,
                          !.indicated = FALSE, !.stims = @ + 1,
                          !.lastCmd = CmdKind(SpatialVals(hyps,
                                          SpatialMotors(hyps, W(w).seq[W(w).si])[1]))])
    /\ NoSleep /\ WorkerFrame

\* time.sleep(time_sleep_param) ends: the next motor of the region, or
\* reset_pwm_values(); self._answer = None; awaitingAnswer.emit()
SPExpose(w) ==
    /\ Alive /\ W(w).pc = "sp_sleep"
    /\ Sleeps(w)
    /\ IF W(w).ei < Len(SpatialMotors(hyps, W(w).seq[W(w).si]))
       THEN /\ Hw(w, SpatialVals(hyps, SpatialMotors(hyps, W(w).seq[W(w).si])[W(w).ei + 1]))
            /\ SetW(w, [W(w) EXCEPT
                          !.ei = @ + 1, !.rem = 0,
                          !.lastCmd = CmdKind(SpatialVals(hyps,
                                SpatialMotors(hyps, W(w).seq[W(w).si])[W(w).ei + 1]))])
       ELSE /\ Hw(w, reset_array)
            /\ SetW(w, [ClearedSlot(W(w)) EXCEPT !.pc = "sp_poll", !.rem = 0,
                                                 !.lastCmd = CmdKind(reset_array)])
    /\ NoEmit /\ WorkerFrame

\* the loop `while self._answer is None and not self._stop: self.msleep(50)` ends;
\* if self._stop or self._answer is None: break
\* answers.append((true_region, self._answer))
SPAnswered(w) ==
    /\ Alive /\ W(w).pc = "sp_poll"
    /\ PollEnds(W(w))
    /\ IF StopSeen(W(w)) \/ W(w).answer = None
       THEN SPFinish(w, W(w), "cancelled")
       ELSE /\ SetW(w, [W(w) EXCEPT
                          !.pc = "sp_pause",
                          !.answers = Append(@, <<TrueRegion(hyps, W(w).seq[W(w).si]),
                                                  W(w).answer>>)])
            /\ NoEmit
    /\ NoHw /\ NoSleep /\ WorkerFrame

\* time.sleep(0.5) ends
SPPause(w) ==
    /\ Alive /\ W(w).pc = "sp_pause"
    /\ Sleeps(w)
    /\ SetW(w, [W(w) EXCEPT !.pc = "sp_next", !.si = @ + 1, !.rem = 0])
    /\ NoHw /\ NoEmit /\ WorkerFrame

SPStep(w) == SPBegin(w) \/ SPNext(w) \/ SPExpose(w) \/ SPAnswered(w) \/ SPPause(w)

\* ------------------------------------------------------------------------
\* MolsWorker.run (core/mols_test.py)
\* ------------------------------------------------------------------------
\* motors = range(num_motor_start, num_motor_end + 1, use_motors_step)
MolsMotors(h) == PyRange(h.num_motor_start, h.num_motor_end + 1, h.use_motors_step)

\* _downstream: start_pwm = random.randint(3, 4) * 10;
\* seq = arange(start_pwm, 20, delta_pwm_down) ++ arange(20, end_pwm_down, -2)
DownSeqs(h) == {arange(k * 10, 20, h.delta_pwm_down) \o arange(20, h.end_pwm_down, -2) :
                  k \in 3..4}

\* _upstream: start_pwm = random.randint(2, 8); seq = arange(start_pwm, end_pwm_up, delta_pwm_up)
UpSeqs(h) == {arange(k, h.end_pwm_up, h.delta_pwm_up) : k \in 2..8}

\* a pass that returns the intensity of the positive answer unchanged
ProbeHitPlain(h, positive, v) == v

\* a pass that returns nothing when its sequence is exhausted
ProbeExhaustedZero(h, positive) == 0

\* _probe, a positive answer at v: int(v + abs(delta_pwm_down if positive_answer == 'n' else 0))
ProbeHit(h, positive, v) == IF positive = "n" THEN v + Abs(h.delta_pwm_down) ELSE v

\* _probe, the sequence is exhausted
ProbeExhausted(h, positive) == IF positive = "n" THEN Abs(h.delta_pwm_down) ELSE h.end_pwm_up

MLMotor(r) == r.motors[r.mi]

\* the first pass result instead of the mean
FirstValue(v) == v[1]

\* int(round(np.mean(v))): the nearest integer, a tie goes to the even one
RoundMean(v) ==
    LET q == SumSeq(v) \div Len(v)
        twice == 2 * (SumSeq(v) % Len(v))
    IN IF twice < Len(v) THEN q
       ELSE IF twice > Len(v) THEN q + 1
       ELSE IF q % 2 = 0 THEN q ELSE q + 1

\* results_mean = {k: int(round(np.mean(v))) for k, v in results.items()}
ResultsMean(results) == [k \in DOMAIN results |-> RoundMean(results[k])]

\* results.setdefault(m, []).append(pwm); then begin_end_indicator()
MLPassDone(r, pwm) ==
    [r EXCEPT !.pc = "ind", !.ic = 0,
              !.results = [m \in DOMAIN r.results \cup {MLMotor(r)} |->
                             IF m \in DOMAIN r.results
                             THEN IF m = MLMotor(r) THEN Append(r.results[m], pwm)
                                  ELSE r.results[m]
                             ELSE <<pwm>>]]

\* for m in motors: streams = [0, 1] * exps_for_each_motor; random.shuffle(streams)
\* after the last motor: self.finished.emit(results_mean)
MLBeginMotor(w) ==
    /\ Alive /\ W(w).pc = "ml_motor"
    /\ IF W(w).mi > Len(W(w).motors)
       THEN /\ Emit([sig |-> "finished", w |-> w, motor |-> NoneMotor])
            /\ SetW(w, [W(w) EXCEPT !.pc = "done", !.exit = "completed", !.emitted = TRUE,
                                    !.results_mean = ResultsMean(W(w).results)])
       ELSE /\ \E st \in Shuffles(Repeat(<<0, 1>>, hyps.exps_for_each_motor)) :
                 SetW(w, [W(w) EXCEPT !.streams = st, !.di = 1, !.pc = "ml_stream"])
            /\ NoEmit
    /\ NoHw /\ NoSleep /\ WorkerFrame

\* for direction in streams: if self._stop: return; progress.emit(...);
\* the pass begins: _downstream(m) if direction == 1 else _upstream(m)
MLBeginPass(w) ==
    /\ Alive /\ W(w).pc = "ml_stream"
    /\ IF W(w).di > Len(W(w).streams)
       THEN /\ SetW(w, [W(w) EXCEPT !.pc = "ml_motor", !.mi = @ + 1])
            /\ NoEmit
       ELSE IF StopSeen(W(w))
       THEN /\ SetW(w, [W(w) EXCEPT !.pc = "done", !.exit = "cancelled"])
            /\ NoEmit
       ELSE /\ Emit([sig |-> "progress", w |-> w, motor |-> MLMotor(W(w))])
            /\ \E sq \in (IF W(w).streams[W(w).di] = 1 THEN DownSeqs(hyps) ELSE UpSeqs(hyps)) :
                 SetW(w, [W(w) EXCEPT
                            !.seq = sq, !.si = 1, !.pc = "ml_probe",
                            !.positive = IF W(w).streams[W(w).di] = 1 THEN "n" ELSE "y"])
    /\ NoHw /\ NoSleep /\ WorkerFrame

\* _probe, for v in seq: if self._stop: reset_pwm_values(); return -1
\* pwm_arr[motor_idx] = v; set_pwm_values(pwm_arr)
\* the sequence is exhausted: the pass ends with the fallback value
MLProbe(w) ==
    /\ Alive /\ W(w).pc = "ml_probe"
    /\ IF W(w).si > Len(W(w).seq)
       THEN /\ SetW(w, MLPassDone(W(w), ProbeExhausted(hyps, W(w).positive)))
            /\ NoHw
       ELSE IF StopSeen(W(w))
       THEN /\ Hw(w, reset_array)
            /\ SetW(w, [W(w) EXCEPT !.pc = "done", !.exit = "cancelled",
                                    !.lastCmd = CmdKind(reset_array)])
       ELSE /\ Hw(w, OneAt(MLMotor(W(w)), W(w).seq[W(w).si]))
            /\ SetW(w, [W(w) EXCEPT
                          !.pc = "ml_sleep", !.fresh = FALSE,
                          !.indicated = FALSE, !.stims = @ + 1,
                          !.lastCmd = CmdKind(OneAt(MLMotor(W(w)), W(w).seq[W(w).si]))])
    /\ NoSleep /\ NoEmit /\ WorkerFrame

\* time.sleep(0.5) ends; reset_pwm_values(); wait_for_patient(): _patient_answer = ''
MLExpose(w) ==
    /\ Alive /\ W(w).pc = "ml_sleep"
    /\ Sleeps(w)
    /\ Hw(w, reset_array)
    /\ SetW(w, [ClearedSlot(W(w)) EXCEPT !.pc = "ml_poll", !.rem = 0,
                                         !.lastCmd = CmdKind(reset_array)])
    /\ NoEmit /\ WorkerFrame

\* wait_for_patient returns; if self._stop: reset_pwm_values(); return -1
\* if self._patient_answer == positive_answer: return the threshold
MLAnswered(w) ==
    /\ Alive /\ W(w).pc = "ml_poll"
    /\ PollEnds(W(w))
    /\ IF StopSeen(W(w))
       THEN /\ Hw(w, reset_array)
            /\ SetW(w, [W(w) EXCEPT !.pc = "done", !.exit = "cancelled",
                                    !.lastCmd = CmdKind(reset_array)])
       ELSE /\ NoHw
            /\ IF W(w).answer = W(w).positive
               THEN SetW(w, MLPassDone(W(w), ProbeHit(hyps, W(w).positive,
                                                      W(w).seq[W(w).si])))
               ELSE SetW(w, [W(w) EXCEPT !.pc = "ml_pause"])
    /\ NoSleep /\ NoEmit /\ WorkerFrame

\* time.sleep(0.35) ends: the next value of the sequence
MLPause(w) ==
    /\ Alive /\ W(w).pc = "ml_pause"
    /\ Sleeps(w)
    /\ SetW(w, [W(w) EXCEPT !.pc = "ml_probe", !.si = @ + 1, !.rem = 0])
    /\ NoHw /\ NoEmit /\ WorkerFrame

\* time.sleep(0.5) after the end indicator ends: the next direction
MLAfterIndicator(w) ==
    /\ Alive /\ W(w).pc = "ml_after_ind"
    /\ Sleeps(w)
    /\ SetW(w, [W(w) EXCEPT !.pc = "ml_stream", !.di = @ + 1, !.rem = 0])
    /\ NoHw /\ NoEmit /\ WorkerFrame

MLStep(w) ==
    \/ MLBeginMotor(w) \/ MLBeginPass(w) \/ MLProbe(w) \/ MLExpose(w) \/ MLAnswered(w)
    \/ MLPause(w) \/ MLAfterIndicator(w)

\* ------------------------------------------------------------------------
\* GUI context: the event loop of the main thread
\* ------------------------------------------------------------------------
NoCont == [op |-> "-", w |-> 0, motor |-> NoneMotor]

\* the GUI thread is in its event loop and has delivered every queued signal:
\* a queued signal is delivered before any later input event
Idle == gui = "idle" /\ evq = <<>>

StopReq(r, rem) ==
    [r EXCEPT !.stop = TRUE, !.rem = rem,
              !.stopAt = IF r.stop THEN @ ELSE r.pc]

\* w.stop(); w.wait(1000): the GUI thread blocks, the handler continues later
BeginWait(op, m) ==
    /\ \E rem \in RemChoices(W(cur)) : SetW(cur, StopReq(W(cur), rem))
    /\ gui' = "wait"
    /\ cont' = [op |-> op, w |-> cur, motor |-> m]
    /\ waitLeft' = WaitMs
    /\ UNCHANGED <<anVars, res, ser, hyps, cur, port, staleCmd, evq, probeOpen, trainOpen, timers, supVars>>

\* A worker that has returned from run() and is replaced as MainWindow.worker is
\* referenced by nothing any more: of its state only the answer lists that
\* results_pmpwm refers to live on.  refs: the results_pmpwm after the handler.
Retired(r, w, refs) ==
    IF r.pc # "done" THEN r
    ELSE [NewWorker(r.kind, <<>>) EXCEPT
            !.pc = "done",
            !.results = [m \in {k \in DOMAIN r.results :
                                 k \in DOMAIN refs /\ refs[k] = <<w, k>>} |-> r.results[m]],
            !.shown = [m \in {k \in DOMAIN r.results :
                               k \in DOMAIN refs /\ refs[k] = <<w, k>>} |-> r.shown[m]]]

\* MainWindow._launch_pmpwm_worker(motors_list): self.worker = PMPWMWorker(...);
\* the signals are connected; self.worker.start()
Launch(motors_list, refs, by) ==
    /\ workers' = Append([w \in DOMAIN workers |-> Retired(W(w), w, refs)],
                         [NewWorker("pmpwm", motors_list) EXCEPT !.by = by])
    /\ cur' = Len(workers) + 1
    /\ staleCmd' = staleCmd

\* a discard that drops the answers of every motor
RemoveAll(f, m) == <<>>

\* dict.pop(m, None)
Remove(f, m) == [k \in DOMAIN f \ {m} |-> f[k]]
Put(f, m, v) == [k \in DOMAIN f \cup {m} |-> IF k = m THEN v ELSE f[k]]

\* [m for m in motors_all if m not in motors_completed and m != motor]
Unfinished(completed, motor) ==
    SelectSeq(motors_all, LAMBDA m : m \notin completed /\ m # motor)

\* _stop_test / _go_home after the wait: reset_pwm_values(); self.close(); menu
ContStop ==
    /\ ser /\ port' = write_array(reset_array)
    /\ staleCmd' = staleCmd
    /\ probeOpen' = FALSE
    /\ UNCHANGED <<workers, cur, trainOpen, timers, motors_completed, results_pmpwm, pending>>

\* PMPWMProbeWindow._rewrite after the wait (steps 2-4)
ContRewrite(motor) ==
    /\ motors_completed' = motors_completed \ {motor}
    /\ results_pmpwm' = Remove(results_pmpwm, motor)
    /\ pending' = Unfinished(motors_completed \ {motor}, motor)
    /\ Launch(<<motor>>, Remove(results_pmpwm, motor), "rewrite")
    /\ UNCHANGED <<port, probeOpen, trainOpen, timers>>

\* PMPWMTrainingWindow(free_mode=True): _on_demo_finished -> _apply_vibration
TrainingOpens ==
    /\ ser /\ port' = write_array(OneAt(motors_all[1], hyps.pmpwm_pwm_values[1]))
    /\ staleCmd' = staleCmd
    /\ timers' = timers + 1
    /\ trainOpen' = TRUE

\* PMPWMProbeWindow._open_training after the wait (steps 3-5)
ContTraining(current) ==
    /\ results_pmpwm' = Remove(results_pmpwm, current)
    /\ pending' = <<current>> \o Unfinished(motors_completed, current)
    /\ TrainingOpens
    /\ UNCHANGED <<workers, cur, probeOpen, motors_completed>>

Continue(c) ==
    /\ CASE c.op = "stop" -> ContStop
         [] c.op = "rewrite" -> ContRewrite(c.motor)
         [] c.op = "train" -> ContTraining(c.motor)
    /\ gui' = "idle"
    /\ cont' = NoCont
    /\ waitLeft' = 0
    /\ UNCHANGED <<anVars, res, ser, hyps, evq, motors_all, current_motor, finishShown>>

\* wait(1000) returns True: the thread has finished
WaitDone ==
    /\ gui = "wait" /\ ~isRunning(cont.w)
    /\ Continue(cont)

\* wait(1000) returns False: the thread is in a sleep that outlasts the wait
WaitTimeout ==
    /\ gui = "wait" /\ isRunning(cont.w)
    /\ SleepDur(W(cont.w)) > 0
    /\ SleepNeed(W(cont.w)) >= waitLeft
    /\ Continue(cont)

\* the worker has cleared the slot and polls it
AwaitPcs == {"pm_poll", "sp_poll", "ml_poll"}

\* _send_answer(val): w = self.main_win.worker; if w: w.set_answer(val)
\* (an answer given to a worker that has returned is read by nobody)
SendAnswer(val) ==
    /\ Idle /\ probeOpen /\ cur # 0 /\ isRunning(cur)
    /\ SetW(cur, [W(cur) EXCEPT !.answer = val, !.fresh = (W(cur).pc \in AwaitPcs)])
    /\ UNCHANGED <<anVars, res, ser, hyps, cur, port, staleCmd, gui, cont, waitLeft, evq, probeOpen,
                   trainOpen, timers, supVars>>

\* the patient answers when prompted (an answer given earlier is cleared unread
\* or never read)
Answer(val) == W(cur).pc \in AwaitPcs /\ SendAnswer(val)

\* PMPWMProbeWindow._stop_test, MOLsProbeWindow._go_home
StopTest ==
    /\ Idle /\ probeOpen /\ hyps.kind # "spatial"
    /\ IF cur # 0 /\ isRunning(cur)
       THEN BeginWait("stop", NoneMotor)
       ELSE Continue([op |-> "stop", w |-> cur, motor |-> NoneMotor])

\* SpatialProbeWindow._stop_test: self.main_win.worker.stop(); self.close()
SpatialStop ==
    /\ Idle /\ probeOpen /\ hyps.kind = "spatial"
    /\ SetW(cur, StopReq(W(cur), 0))
    /\ probeOpen' = FALSE
    /\ UNCHANGED <<anVars, res, ser, hyps, cur, port, staleCmd, gui, cont, waitLeft, evq, trainOpen, timers,
                   supVars>>

\* PMPWMProbeWindow._rewrite: the operator picks one of the completed motors
Rewrite(motor) ==
    /\ Idle /\ probeOpen /\ hyps.kind = "pmpwm"
    /\ motor \in motors_completed
    /\ Len(workers) < WorkerCap
    /\ IF cur # 0 /\ isRunning(cur)
       THEN BeginWait("rewrite", motor)
       ELSE Continue([op |-> "rewrite", w |-> cur, motor |-> motor])

\* PMPWMProbeWindow._open_training; the 600 ms single shot of an earlier training
\* window has fired before the operator can close that window and open another
OpenTraining ==
    /\ Idle /\ probeOpen /\ hyps.kind = "pmpwm"
    /\ ~trainOpen /\ timers = 0
    /\ motors_all # <<>>
    /\ IF cur # 0 /\ isRunning(cur)
       THEN BeginWait("train", current_motor)
       ELSE /\ pending' = <<>>
            /\ TrainingOpens
            /\ UNCHANGED <<anVars, res, ser, hyps, workers, cur, gui, cont, waitLeft, evq, probeOpen,
                           motors_all, motors_completed, results_pmpwm, current_motor,
                           finishShown>>

\* the single shot fires: self.vibro.reset_pwm_values() in the GUI thread
TimerFires ==
    /\ gui = "idle" /\ timers > 0
    /\ timers' = timers - 1
    /\ ser /\ port' = write_array(reset_array)
    /\ staleCmd' = staleCmd
    /\ UNCHANGED <<anVars, res, ser, hyps, workers, cur, gui, cont, waitLeft, evq, probeOpen, trainOpen,
                   supVars>>

\* the training window is closed: closed.emit() -> PMPWMProbeWindow._resume_test
ResumeTest ==
    /\ Idle /\ trainOpen
    /\ trainOpen' = FALSE
    /\ IF pending # <<>>
       THEN /\ Len(workers) < WorkerCap
            /\ Launch(pending, results_pmpwm, "resume")
            /\ pending' = <<>>
       ELSE UNCHANGED <<workers, cur, staleCmd, pending>>
    /\ UNCHANGED <<anVars, res, ser, hyps, port, gui, cont, waitLeft, evq, probeOpen, timers, motors_all,
                   motors_completed, results_pmpwm, current_motor, finishShown>>

\* a fraction a / b is the pair <<a, b>>
AddFrac(x, y) == <<x[1] * y[2] + y[1] * x[2], x[2] * y[2]>>

\* np.mean of a list of fractions (0.0 for none)
RECURSIVE SumFracs(_)
SumFracs(list) == IF list = <<>> THEN <<0, 1>>
                  ELSE AddFrac(Head(list), SumFracs(Tail(list)))
MeanFrac(list) == IF list = <<>> THEN <<0, 1>>
                  ELSE <<SumFracs(list)[1], SumFracs(list)[2] * Len(list)>>

\* a matrix that counts the first of the pairs only
ConfusionOfFirst(pairs, levels) ==
    [t \in 1..levels |-> [p \in 1..levels |->
        IF pairs # <<>> /\ pairs[1][1] = t /\ pairs[1][2] = p THEN 1 ELSE 0]]

\* cm = np.zeros((levels, levels), dtype=int); for t, p in pairs: cm[t-1, p-1] += 1
RECURSIVE Confusion(_, _)
Confusion(pairs, levels) ==
    IF pairs = <<>> THEN [t \in 1..levels |-> [p \in 1..levels |-> 0]]
    ELSE [Confusion(Tail(pairs), levels) EXCEPT ![Head(pairs)[1]][Head(pairs)[2]] = @ + 1]

\* the list of Trials results_pmpwm holds for motor m
Stored(m) == W(results_pmpwm[m][1]).results[results_pmpwm[m][2]]

\* sum(self.results_pmpwm.values(), []), the motors taken in ascending order
RECURSIVE AllAnswers(_)
AllAnswers(keys) ==
    IF keys = <<>> THEN <<>> ELSE Stored(Head(keys)) \o AllAnswers(Tail(keys))

\* ok / len(local) with ok = sum(t == p for t, p in local); 0.0 for no Trials
MotorAccuracy(m) ==
    IF m \notin DOMAIN results_pmpwm \/ Stored(m) = <<>> THEN <<0, 1>>
    ELSE <<Cardinality({i \in DOMAIN Stored(m) : Stored(m)[i][1] = Stored(m)[i][2]}),
           Len(Stored(m))>>

\* MainWindow._finish_pmpwm: the dict res
FinishResult ==
    [answers |-> AllAnswers(Sorted(DOMAIN results_pmpwm)),
     per_motor_accuracy |-> [m \in Range(motors_all) |-> MotorAccuracy(m)],
     mean_accuracy |-> MeanFrac([i \in DOMAIN motors_all |-> MotorAccuracy(motors_all[i])]),
     confusion |-> Confusion(AllAnswers(Sorted(DOMAIN results_pmpwm)),
                             Len(hyps.pmpwm_pwm_values)),
     confusion_per_motor |->
         [m \in DOMAIN results_pmpwm |-> Confusion(Stored(m), Len(hyps.pmpwm_pwm_values))]]

\* btn_finish: MainWindow._finish_pmpwm -> _pmpwm_finished: probe_win.close()
FinishTest ==
    /\ Idle /\ probeOpen /\ finishShown
    /\ probeOpen' = FALSE
    /\ res' = <<FinishResult>>
    /\ UNCHANGED <<anVars, ser, hyps, workers, cur, port, staleCmd, gui, cont, waitLeft, evq,
                   trainOpen, timers, supVars>>

\* ------------------------------------------------------------------------
\* Slots of the signals (queued connections, run by the GUI event loop)
\* ------------------------------------------------------------------------
\* progress -> PMPWMProbeWindow.update_status (self._current_motor = motor);
\* the other probe windows only show it
OnProgress(e) ==
    /\ current_motor' = IF hyps.kind = "pmpwm" THEN e.motor ELSE current_motor
    /\ UNCHANGED <<workers, cur, staleCmd, gui, probeOpen, motors_completed, results_pmpwm,
                   pending, finishShown>>

\* motorFinished -> MainWindow._on_motor_done; self.worker.results[motor] raises
\* KeyError when the current worker has no list for the motor: an exception that
\* leaves a slot aborts the application
OnMotorDone(e) ==
    /\ motors_completed' = motors_completed \cup {e.motor}
    /\ IF e.motor \in DOMAIN W(cur).results
       THEN /\ results_pmpwm' = Put(results_pmpwm, e.motor, <<cur, e.motor>>)
            /\ finishShown' = (finishShown \/ motors_completed' = Range(motors_all))
            /\ gui' = gui
       ELSE /\ gui' = "crashed"
            /\ UNCHANGED <<results_pmpwm, finishShown>>
    /\ UNCHANGED <<workers, cur, staleCmd, probeOpen, pending, current_motor>>

\* finished -> MainWindow._on_partial_finished
OnPartialFinished(e) ==
    /\ IF pending # <<>>
       THEN /\ Len(workers) < WorkerCap
            /\ Launch(pending, results_pmpwm, "finished")
            /\ pending' = <<>>
       ELSE UNCHANGED <<workers, cur, staleCmd, pending>>
    /\ UNCHANGED <<gui, probeOpen, motors_completed, results_pmpwm, current_motor,
                   finishShown>>

\* finished -> MainWindow._on_finished / MainWindow._spatial_finished: the result is
\* saved, probe_win.close(), the start screen is shown
OnFinished(e) ==
    /\ probeOpen' = FALSE
    /\ UNCHANGED <<workers, cur, staleCmd, gui, supVars>>

ProcessEvent ==
    /\ gui = "idle" /\ evq # <<>>
    /\ evq' = Tail(evq)
    /\ CASE Head(evq).sig = "progress" -> OnProgress(Head(evq))
         [] Head(evq).sig = "motorFinished" -> OnMotorDone(Head(evq))
         [] Head(evq).sig = "finished" /\ hyps.kind = "pmpwm" -> OnPartialFinished(Head(evq))
         [] Head(evq).sig = "finished" /\ hyps.kind # "pmpwm" -> OnFinished(Head(evq))
    /\ UNCHANGED <<anVars, res, ser, hyps, port, cont, waitLeft, trainOpen, timers, motors_all>>

\* ------------------------------------------------------------------------
\* Specifications
\* ------------------------------------------------------------------------
\* MainWindow._start_pmpwm_after_delay has run
InitPM ==
    /\ hyps = PMHyps
    /\ motors_all = PyRange(hyps.num_motor_start, hyps.num_motor_end + 1,
                            hyps.use_motors_step)
    /\ motors_completed = {}
    /\ results_pmpwm = <<>>
    /\ pending = <<>>
    /\ current_motor = NoneMotor
    /\ finishShown = FALSE
    /\ workers = <<NewWorker("pmpwm", motors_all)>>
    /\ cur = 1
    /\ port = Zeros
    /\ staleCmd = FALSE
    /\ gui = "idle" /\ cont = NoCont /\ waitLeft = 0
    /\ evq = <<>>
    /\ probeOpen = TRUE /\ trainOpen = FALSE /\ timers = 0
    /\ res = <<>> /\ ser = TRUE /\ NoAnalysis

Indicator(w) == IndOn(w) \/ IndOff(w) \/ IndReturn(w)

PMAnswerSet == {1}

NextPM ==
    \/ \E w \in DOMAIN workers : PMBeginMotor(w)
    \/ \E w \in DOMAIN workers : PMSet(w)
    \/ \E w \in DOMAIN workers : PMExpose(w)
    \/ \E w \in DOMAIN workers : PMAnswered(w)
    \/ \E w \in DOMAIN workers : PMPause(w)
    \/ \E w \in DOMAIN workers : PMResult(w)
    \/ \E w \in DOMAIN workers : IndOn(w)
    \/ \E w \in DOMAIN workers : IndOff(w)
    \/ \E w \in DOMAIN workers : IndReturn(w)
    \/ \E val \in PMAnswerSet : Answer(val)
    \/ StopTest
    \/ \E motor \in Range(motors_all) : Rewrite(motor)
    \/ OpenTraining
    \/ ResumeTest
    \/ TimerFires
    \/ FinishTest
    \/ WaitDone
    \/ WaitTimeout
    \/ ProcessEvent

SpecPM == InitPM /\ [][NextPM]_vars

\* MainWindow._start_pmpwm_after_delay has run with one intensity
InitPM3 ==
    /\ hyps = PMOneLevelHyps
    /\ motors_all = PyRange(hyps.num_motor_start, hyps.num_motor_end + 1,
                            hyps.use_motors_step)
    /\ motors_completed = {}
    /\ results_pmpwm = <<>>
    /\ pending = <<>>
    /\ current_motor = NoneMotor
    /\ finishShown = FALSE
    /\ workers = <<NewWorker("pmpwm", motors_all)>>
    /\ cur = 1
    /\ port = Zeros
    /\ staleCmd = FALSE
    /\ gui = "idle" /\ cont = NoCont /\ waitLeft = 0
    /\ evq = <<>>
    /\ probeOpen = TRUE /\ trainOpen = FALSE /\ timers = 0
    /\ res = <<>> /\ ser = TRUE /\ NoAnalysis

SpecPM3 == InitPM3 /\ [][NextPM]_vars

\* the answer buttons of the probe window
Buttons(h) == CASE h.kind = "mols" -> {"y", "n"}
                [] h.kind = "spatial" -> SpatialButtons(h)
                [] h.kind = "pmpwm" -> 1..Len(h.pmpwm_pwm_values)

\* the list of motors the first worker of a test is created with
FirstMotors(h) == CASE h.kind = "mols" -> MolsMotors(h)
                    [] h.kind = "spatial" -> <<>>
                    [] h.kind = "pmpwm" -> PyRange(h.num_motor_start, h.num_motor_end + 1,
                                                   h.use_motors_step)

\* _start_test_after_delay / _start_spatial_after_delay / _start_pmpwm_after_delay has run
Init ==
    /\ hyps \in HypsSet
    /\ motors_all = IF hyps.kind = "pmpwm" THEN FirstMotors(hyps) ELSE <<>>
    /\ motors_completed = {}
    /\ results_pmpwm = <<>>
    /\ pending = <<>>
    /\ current_motor = NoneMotor
    /\ finishShown = FALSE
    /\ workers = <<NewWorker(hyps.kind, FirstMotors(hyps))>>
    /\ cur = 1
    /\ port = Zeros
    /\ staleCmd = FALSE
    /\ gui = "idle" /\ cont = NoCont /\ waitLeft = 0
    /\ evq = <<>>
    /\ probeOpen = TRUE /\ trainOpen = FALSE /\ timers = 0
    /\ res = <<>> /\ ser = TRUE /\ NoAnalysis

\* the dialogs accept a first motor after the last one: range(1, 0 + 1, 1) is empty
PMEmptyHyps == [PMHyps EXCEPT !.num_motor_start = 1, !.num_motor_end = 0]
MolsEmptyHyps == [MolsHyps EXCEPT !.num_motor_start = 1, !.num_motor_end = 0]

\* MainWindow._start_*_after_delay has run, also with a range that is empty
InitCfg ==
    /\ hyps \in HypsSet \cup {PMEmptyHyps, MolsEmptyHyps}
    /\ motors_all = IF hyps.kind = "pmpwm" THEN FirstMotors(hyps) ELSE <<>>
    /\ motors_completed = {}
    /\ results_pmpwm = <<>>
    /\ pending = <<>>
    /\ current_motor = NoneMotor
    /\ finishShown = FALSE
    /\ workers = <<NewWorker(hyps.kind, FirstMotors(hyps))>>
    /\ cur = 1
    /\ port = Zeros
    /\ staleCmd = FALSE
    /\ gui = "idle" /\ cont = NoCont /\ waitLeft = 0
    /\ evq = <<>>
    /\ probeOpen = TRUE /\ trainOpen = FALSE /\ timers = 0
    /\ res = <<>> /\ ser = TRUE /\ NoAnalysis

\* one test of any kind: the engine, the answers, Stop
Next ==
    \/ \E w \in DOMAIN workers : PMBeginMotor(w)
    \/ \E w \in DOMAIN workers : PMSet(w)
    \/ \E w \in DOMAIN workers : PMExpose(w)
    \/ \E w \in DOMAIN workers : PMAnswered(w)
    \/ \E w \in DOMAIN workers : PMPause(w)
    \/ \E w \in DOMAIN workers : PMResult(w)
    \/ \E w \in DOMAIN workers : SPBegin(w)
    \/ \E w \in DOMAIN workers : SPNext(w)
    \/ \E w \in DOMAIN workers : SPExpose(w)
    \/ \E w \in DOMAIN workers : SPAnswered(w)
    \/ \E w \in DOMAIN workers : SPPause(w)
    \/ \E w \in DOMAIN workers : MLBeginMotor(w)
    \/ \E w \in DOMAIN workers : MLBeginPass(w)
    \/ \E w \in DOMAIN workers : MLProbe(w)
    \/ \E w \in DOMAIN workers : MLExpose(w)
    \/ \E w \in DOMAIN workers : MLAnswered(w)
    \/ \E w \in DOMAIN workers : MLPause(w)
    \/ \E w \in DOMAIN workers : MLAfterIndicator(w)
    \/ \E w \in DOMAIN workers : IndOn(w)
    \/ \E w \in DOMAIN workers : IndOff(w)
    \/ \E w \in DOMAIN workers : IndReturn(w)
    \/ \E val \in Buttons(hyps) : SendAnswer(val)
    \/ StopTest
    \/ SpatialStop
    \/ FinishTest
    \/ WaitDone
    \/ WaitTimeout
    \/ ProcessEvent

Spec == Init /\ [][Next]_vars

\* one statement of the run() of worker w
EngineStep(w) ==
    /\ w \in DOMAIN workers
    /\ \/ PMBeginMotor(w) \/ PMSet(w) \/ PMExpose(w) \/ PMAnswered(w) \/ PMPause(w)
       \/ PMResult(w)
       \/ SPBegin(w) \/ SPNext(w) \/ SPExpose(w) \/ SPAnswered(w) \/ SPPause(w)
       \/ MLBeginMotor(w) \/ MLBeginPass(w) \/ MLProbe(w) \/ MLExpose(w)
       \/ MLAnswered(w) \/ MLPause(w) \/ MLAfterIndicator(w)
       \/ IndOn(w) \/ IndOff(w) \/ IndReturn(w)

\* a thread that can run does run, and QThread.wait(1000) returns: the patient and
\* the operator are free never to act
SpecLive ==
    /\ Init /\ [][Next]_vars
    /\ \A w \in 1..MaxWorkers : WF_vars(EngineStep(w))
    /\ WF_vars(WaitDone \/ WaitTimeout)

SpecCfg == InitCfg /\ [][Next]_vars

\* MainWindow._start_test_after_delay has run with one of the threshold configurations
InitML ==
    /\ hyps \in MolsHypsSet
    /\ motors_all = <<>>
    /\ motors_completed = {}
    /\ results_pmpwm = <<>>
    /\ pending = <<>>
    /\ current_motor = NoneMotor
    /\ finishShown = FALSE
    /\ workers = <<NewWorker("mols", MolsMotors(hyps))>>
    /\ cur = 1
    /\ port = Zeros
    /\ staleCmd = FALSE
    /\ gui = "idle" /\ cont = NoCont /\ waitLeft = 0
    /\ evq = <<>>
    /\ probeOpen = TRUE /\ trainOpen = FALSE /\ timers = 0
    /\ res = <<>> /\ ser = TRUE /\ NoAnalysis

\* one threshold test: the engine, the answers of the patient, the home button
NextML ==
    \/ \E w \in DOMAIN workers : MLBeginMotor(w)
    \/ \E w \in DOMAIN workers : MLBeginPass(w)
    \/ \E w \in DOMAIN workers : MLProbe(w)
    \/ \E w \in DOMAIN workers : MLExpose(w)
    \/ \E w \in DOMAIN workers : MLAnswered(w)
    \/ \E w \in DOMAIN workers : MLPause(w)
    \/ \E w \in DOMAIN workers : MLAfterIndicator(w)
    \/ \E w \in DOMAIN workers : IndOn(w)
    \/ \E w \in DOMAIN workers : IndOff(w)
    \/ \E w \in DOMAIN workers : IndReturn(w)
    \/ \E val \in {"y", "n"} : Answer(val)
    \/ StopTest
    \/ WaitDone
    \/ WaitTimeout
    \/ ProcessEvent

SpecML == InitML /\ [][NextML]_vars

\* spatial configurations of the dialog: U regions of single motors or of pairs,
\* S samples
SeqHypsSet ==
    {[SpatialSingleHyps EXCEPT !.num_motor_end = u - 1, !.max_counter_samples = n] :
        u \in 1..MaxRegions, n \in 1..MaxSeqSamples}
    \cup
    {[SpatialPairsHyps EXCEPT !.num_motor_end = 2 * u, !.max_counter_samples = n] :
        u \in 1..MaxRegions, n \in 1..MaxSeqSamples}

\* MainWindow._start_spatial_after_delay has run with one of these configurations
InitSeq ==
    /\ hyps \in SeqHypsSet
    /\ motors_all = <<>>
    /\ motors_completed = {}
    /\ results_pmpwm = <<>>
    /\ pending = <<>>
    /\ current_motor = NoneMotor
    /\ finishShown = FALSE
    /\ workers = <<NewWorker("spatial", <<>>)>>
    /\ cur = 1
    /\ port = Zeros
    /\ staleCmd = FALSE
    /\ gui = "idle" /\ cont = NoCont /\ waitLeft = 0
    /\ evq = <<>>
    /\ probeOpen = TRUE /\ trainOpen = FALSE /\ timers = 0
    /\ res = <<>> /\ ser = TRUE /\ NoAnalysis

\* the worker builds its presentation sequence
NextSeq == \E w \in DOMAIN workers : SPBegin(w)

SpecSeq == InitSeq /\ [][NextSeq]_vars

\* SpatialHyperparamsDialog.compute_allowed_steps(total_motors)
AllowedSteps(total) ==
    {1} \cup (IF total % 2 = 0 THEN {2} ELSE {}) \cup (IF total % 3 = 0 THEN {3} ELSE {})

\* SpatialHyperparamsDialog.get_hyps: the step is 2 in pairs mode and the entry of
\* cb_step in single mode; cb_step is refilled from the range by update_steps
RegHypsSet ==
    UNION {{[SpatialSingleHyps EXCEPT !.num_motor_end = u - 1, !.use_motors_step = st,
                                      !.max_counter_samples = u] :
               st \in AllowedSteps(u)} : u \in 1..MaxRegions}
    \cup
    {[SpatialPairsHyps EXCEPT !.num_motor_end = 2 * u, !.max_counter_samples = u] :
        u \in 1..MaxRegions}

\* MainWindow._start_spatial_after_delay has run with a configuration of the dialog
InitReg ==
    /\ hyps \in RegHypsSet
    /\ motors_all = <<>>
    /\ motors_completed = {}
    /\ results_pmpwm = <<>>
    /\ pending = <<>>
    /\ current_motor = NoneMotor
    /\ finishShown = FALSE
    /\ workers = <<NewWorker("spatial", <<>>)>>
    /\ cur = 1
    /\ port = Zeros
    /\ staleCmd = FALSE
    /\ gui = "idle" /\ cont = NoCont /\ waitLeft = 0
    /\ evq = <<>>
    /\ probeOpen = TRUE /\ trainOpen = FALSE /\ timers = 0
    /\ res = <<>> /\ ser = TRUE /\ NoAnalysis

NextReg ==
    \/ \E w \in DOMAIN workers : SPBegin(w)
    \/ \E w \in DOMAIN workers : SPNext(w)
    \/ \E w \in DOMAIN workers : SPExpose(w)
    \/ \E w \in DOMAIN workers : SPAnswered(w)
    \/ \E w \in DOMAIN workers : SPPause(w)
    \/ \E val \in Buttons(hyps) : Answer(val)
    \/ SpatialStop
    \/ ProcessEvent

SpecReg == InitReg /\ [][NextReg]_vars

\* MainWindow._start_pmpwm_after_delay has run with a configuration of the dialog
InitDlg ==
    /\ hyps \in PMDialogHypsSet
    /\ motors_all = FirstMotors(hyps)
    /\ motors_completed = {}
    /\ results_pmpwm = <<>>
    /\ pending = <<>>
    /\ current_motor = NoneMotor
    /\ finishShown = FALSE
    /\ workers = <<NewWorker("pmpwm", motors_all)>>
    /\ cur = 1
    /\ port = Zeros
    /\ staleCmd = FALSE
    /\ gui = "idle" /\ cont = NoCont /\ waitLeft = 0
    /\ evq = <<>>
    /\ probeOpen = TRUE /\ trainOpen = FALSE /\ timers = 0
    /\ res = <<>> /\ ser = TRUE /\ NoAnalysis

\* one uninterrupted discrimination run: the engine and the answers of the patient
NextDlg ==
    \/ \E w \in DOMAIN workers : PMBeginMotor(w)
    \/ \E w \in DOMAIN workers : PMSet(w)
    \/ \E w \in DOMAIN workers : PMExpose(w)
    \/ \E w \in DOMAIN workers : PMAnswered(w)
    \/ \E w \in DOMAIN workers : PMPause(w)
    \/ \E w \in DOMAIN workers : PMResult(w)
    \/ \E w \in DOMAIN workers : IndOn(w)
    \/ \E w \in DOMAIN workers : IndOff(w)
    \/ \E w \in DOMAIN workers : IndReturn(w)
    \/ \E val \in Buttons(hyps) : Answer(val)
    \/ ProcessEvent

SpecDlg == InitDlg /\ [][NextDlg]_vars

\* a discrimination run during which the device may be unplugged
InitHW ==
    /\ hyps = PMRepeatHyps
    /\ motors_all = FirstMotors(hyps)
    /\ motors_completed = {}
    /\ results_pmpwm = <<>>
    /\ pending = <<>>
    /\ current_motor = NoneMotor
    /\ finishShown = FALSE
    /\ workers = <<NewWorker("pmpwm", motors_all)>>
    /\ cur = 1
    /\ port = Zeros
    /\ staleCmd = FALSE
    /\ gui = "idle" /\ cont = NoCont /\ waitLeft = 0
    /\ evq = <<>>
    /\ probeOpen = TRUE /\ trainOpen = FALSE /\ timers = 0
    /\ res = <<>> /\ ser = TRUE /\ NoAnalysis

NextHW ==
    \/ \E w \in DOMAIN workers : PMBeginMotor(w)
    \/ \E w \in DOMAIN workers : PMSet(w)
    \/ \E w \in DOMAIN workers : PMExpose(w)
    \/ \E w \in DOMAIN workers : PMAnswered(w)
    \/ \E w \in DOMAIN workers : PMPause(w)
    \/ \E w \in DOMAIN workers : PMResult(w)
    \/ \E w \in DOMAIN workers : IndOn(w)
    \/ \E w \in DOMAIN workers : IndOff(w)
    \/ \E w \in DOMAIN workers : IndReturn(w)
    \/ \E w \in DOMAIN workers : SerialFails(w)
    \/ \E val \in Buttons(hyps) : Answer(val)
    \/ ProcessEvent
    \/ Unplug

SpecHW == InitHW /\ [][NextHW]_vars

\* ------------------------------------------------------------------------
\* Properties
\* ------------------------------------------------------------------------
ExposurePcs == {"pm_sleep", "sp_sleep", "ml_sleep"}
PausePcs == {"pm_pause", "sp_pause", "ml_pause"}

\* C1: at most one worker issues hardware commands: once a new discrimination
\* worker is launched, no worker launched before it writes to the port any more.
C1_OneWorkerActuates == ~staleCmd

\* C2: if cancellation is requested while the engine waits for the response to a
\* stimulus, no Trial and no pass result is recorded for that stimulus.
C2_NoTrialForCancelledStimulus ==
    [][\A w \in DOMAIN workers :
         (W(w).stop /\ W(w).pc \in AwaitPcs /\ w \in DOMAIN workers')
            => Trials(workers'[w]) = Trials(W(w))]_vars

\* a worker has left its run after a stop requested while it waited for a response
C2_Witness ==
    \E w \in DOMAIN workers :
        W(w).stopAt \in AwaitPcs /\ W(w).pc = "done" /\ W(w).stims > 0

\* C3: a run in which cancellation was requested while the engine waited for a
\* response does not emit the 'finished' event a completed run emits.
C3_CancelledNotFinished ==
    \A w \in DOMAIN workers : W(w).stopAt \in AwaitPcs => ~W(w).emitted

\* C4: on every exit path of a worker's run the last hardware command the worker
\* issued sets all motors to zero.
C4_ZeroOnExit ==
    \A w \in DOMAIN workers : W(w).pc = "done" => W(w).lastCmd # "on"

\* a worker has left its run on a cancellation, after a command that zeroed the motors
C4_Witness ==
    \E w \in DOMAIN workers :
        W(w).pc = "done" /\ W(w).exit = "cancelled" /\ W(w).lastCmd = "zero"

\* the response a worker takes from the slot at the end of a wait
Consumes(w) ==
    /\ w \in DOMAIN workers'
    /\ W(w).pc \in AwaitPcs
    /\ workers'[w].pc \in PausePcs \cup {"ind"}

\* the Trial the worker appends for the stimulus it has presented
NewTrial(r) ==
    IF r.kind = "pmpwm" THEN <<TrueLevel(hyps.pmpwm_pwm_values, r.seq[r.si]), r.answer>>
    ELSE <<TrueRegion(hyps, r.seq[r.si]), r.answer>>

\* the Trials of the sequence the worker is working through
CurrentTrials(r) ==
    IF r.kind = "pmpwm" THEN r.results[r.motors[r.mi]] ELSE r.answers

TrueOf(r, k) ==
    IF r.kind = "pmpwm" THEN TrueLevel(hyps.pmpwm_pwm_values, r.seq[k])
    ELSE TrueRegion(hyps, r.seq[k])

\* the Trials recorded so far are those of the stimuli answered, in presentation order
InOrder(r) ==
    r.pc \in {"pm_set", "pm_sleep", "pm_poll", "pm_pause",
              "sp_next", "sp_sleep", "sp_poll", "sp_pause"}
      => /\ Len(CurrentTrials(r)) = IF r.pc \in PausePcs THEN r.si ELSE r.si - 1
         /\ \A k \in 1..Len(CurrentTrials(r)) : CurrentTrials(r)[k][1] = TrueOf(r, k)

\* C5: the response recorded for a stimulus was written to the slot after the slot
\* was cleared for that stimulus; every answered stimulus gives exactly one Trial,
\* appended in presentation order.
C5_FreshResponseRecorded ==
    /\ [](\A w \in DOMAIN workers : InOrder(W(w)))
    /\ [][\A w \in DOMAIN workers :
            /\ Consumes(w) => W(w).fresh
            /\ (Consumes(w) /\ W(w).kind # "mols")
                  => /\ Trials(workers'[w]) = Trials(W(w)) + 1
                     /\ CurrentTrials(workers'[w]) =
                            Append(CurrentTrials(W(w)), NewTrial(W(w)))
            /\ (w \in DOMAIN workers' /\ W(w).kind # "mols" /\ ~Consumes(w))
                  => Trials(workers'[w]) = Trials(W(w))]_vars

\* a slot written too early was cleared unread and the stimulus was then answered
C5_Witness ==
    \E w \in DOMAIN workers :
        W(w).discarded /\ W(w).fresh /\ W(w).pc \in PausePcs /\ Trials(W(w)) >= 2

\* C6: if stop() was requested at any point up to the end of the pause that
\* precedes a stimulus, the engine does not present that stimulus, nor any later one.
C6_NoStimulusAfterStop ==
    [][\A w \in DOMAIN workers :
         (W(w).stop /\ W(w).stopAt # "pm_set" /\ w \in DOMAIN workers')
            => workers'[w].stims = W(w).stims]_vars

\* C7: a motor energized for a stimulus stays on for the exposure only, and the
\* exposure ends with the reset of all motors, before the wait for the response;
\* a worker that waits, pauses, checks the flag or has left is not energizing one.
C7_ExposureCompleted ==
    /\ [](\A w \in DOMAIN workers :
            W(w).lastCmd = "on" => W(w).pc \in ExposurePcs \cup {"ind"})
    /\ [][\A w \in DOMAIN workers :
            (w \in DOMAIN workers' /\ W(w).pc \in ExposurePcs
               /\ workers'[w].pc \notin ExposurePcs)
              => workers'[w].pc \in AwaitPcs /\ workers'[w].lastCmd = "zero"]_vars

\* stop was requested during an exposure; the worker has completed it and reset
C7_Witness ==
    \E w \in DOMAIN workers :
        W(w).stopAt \in ExposurePcs /\ W(w).pc \in AwaitPcs /\ W(w).lastCmd = "zero"

\* C8: once cancellation has been requested the engine fires no end indicator.
C8_NoIndicatorAfterStop ==
    \A w \in DOMAIN workers : ~W(w).indAfterStop

\* C9: a run that ends without cancellation has fired the end indicator after its
\* last stimulus when it emits 'finished'.
C9_IndicatorBeforeFinished ==
    \A w \in DOMAIN workers :
        (W(w).emitted /\ ~W(w).stop /\ W(w).stims > 0) => W(w).indicated

\* the answers MainWindow.results_pmpwm holds for motor k
StoredTrials(k) == W(results_pmpwm[k][1]).results[results_pmpwm[k][2]]

\* the marks and the stored answers of the completed motors other than m stay
KeptOthers(m) ==
    \A k \in motors_completed \ {m} :
        /\ k \in motors_completed'
        /\ k \in DOMAIN results_pmpwm
              => k \in DOMAIN results_pmpwm' /\ StoredTrials(k)' = StoredTrials(k)

\* the step of _rewrite that launches the worker for motor m
RewriteStep(m) ==
    /\ Len(workers') = Len(workers) + 1
    /\ workers'[Len(workers')].by = "rewrite"
    /\ workers'[Len(workers')].motors = <<m>>

\* a step of the re-run of motor m: of its worker, or the handling of its signal
ReRunStep(m) ==
    /\ cur # 0 /\ cur' = cur /\ Len(workers') = Len(workers)
    /\ W(cur).by = "rewrite" /\ W(cur).motors = <<m>>
    /\ \/ workers'[cur] # W(cur)
       \/ evq # <<>> /\ evq' = Tail(evq) /\ Head(evq).w = cur

\* C10: the rewrite of a completed motor m removes the stored Trials and the
\* completed mark of m; the Trials and marks of every other completed motor are
\* unchanged by the rewrite and by the re-run of m.
C10_RewriteFrame ==
    [][\A m \in Range(motors_all) :
         /\ RewriteStep(m) => /\ m \notin motors_completed'
                              /\ m \notin DOMAIN results_pmpwm'
                              /\ KeptOthers(m)
         /\ ReRunStep(m) => KeptOthers(m)]_vars

\* motor m was run again after a rewrite while another motor stayed completed
C10_Witness ==
    \E w \in DOMAIN workers :
        /\ W(w).by = "rewrite" /\ W(w).exit = "completed"
        /\ \E k \in motors_completed \ Range(W(w).motors) : k \in DOMAIN results_pmpwm
        /\ Range(W(w).motors) \subseteq motors_completed

\* the number of stimuli scheduled for one motor: n_levels * repeats
Scheduled == Len(hyps.pmpwm_pwm_values) * hyps.pmpwm_repeats

\* C11: while the application runs, every motor in motors_completed has its
\* complete list of n_levels * repeats Trials stored in results_pmpwm.
C11_CompletedTrialsKept ==
    Alive => \A k \in motors_completed :
                /\ k \in DOMAIN results_pmpwm
                /\ Len(StoredTrials(k)) = Scheduled

\* C12: the Trials recorded for a motor, in a worker and in results_pmpwm, never
\* exceed the n_levels * repeats stimuli scheduled for it nor the stimuli
\* presented on it so far.
C12_TrialsBounded ==
    /\ \A w \in DOMAIN workers : \A m \in DOMAIN W(w).shown :
          /\ Len(W(w).results[m]) <= Scheduled
          /\ Len(W(w).results[m]) <= W(w).shown[m]
          /\ W(w).shown[m] <= Scheduled
    /\ \A k \in DOMAIN results_pmpwm :
          /\ Len(StoredTrials(k)) <= Scheduled
          /\ Len(StoredTrials(k)) <= W(results_pmpwm[k][1]).shown[k]

\* a relaunched worker has recorded the last Trial of a motor it presents again
C12_Witness ==
    /\ Len(workers) = 2 /\ W(2).kind = "pmpwm"
    /\ \E m \in DOMAIN W(2).results :
          /\ Len(W(2).results[m]) = Scheduled
          /\ m \in DOMAIN results_pmpwm /\ results_pmpwm[m] = <<2, m>>

\* a pass of worker w ends in this step: _probe returns a value other than -1,
\* which run() appends to the list of the motor
PassEnds(w) == W(w).pc \in {"ml_poll", "ml_probe"} /\ workers'[w].pc = "ind"
PassValue(w) ==
    LET list == workers'[w].results[MLMotor(W(w))] IN list[Len(list)]

\* the pass ends on the response to the value seq[si]
OnResponse(w) == W(w).pc = "ml_poll"

\* C13: a descending pass whose first negative response is given at intensity v
\* returns v + |delta_down|; a descending pass whose sequence is exhausted
\* without a negative response returns |delta_down|.
C13_DescendingPass ==
    [][\A w \in DOMAIN workers :
         /\ (PassEnds(w) /\ W(w).positive = "n") =>
               IF OnResponse(w)
               THEN /\ W(w).answer = "n"
                    /\ PassValue(w) = W(w).seq[W(w).si] + Abs(hyps.delta_pwm_down)
               ELSE /\ W(w).si = Len(W(w).seq) + 1
                    /\ PassValue(w) = Abs(hyps.delta_pwm_down)
         /\ (OnResponse(w) /\ W(w).positive = "n" /\ W(w).answer = "n" /\ ~W(w).stop
                /\ workers'[w].pc # "ml_poll") => PassEnds(w)]_vars

\* with a step of 5 the first negative response came at 20: the pass returned 25
C13_Witness ==
    \E w \in DOMAIN workers :
        /\ W(w).pc = "ind" /\ W(w).positive = "n" /\ hyps.delta_pwm_down = -5
        /\ W(w).si <= Len(W(w).seq) /\ W(w).seq[W(w).si] = 20
        /\ W(w).results[MLMotor(W(w))][Len(W(w).results[MLMotor(W(w))])] = 25

\* C14: the value returned by a descending pass that stopped on a negative
\* response is the last intensity answered "felt" in that pass, the value
\* presented just before the one that was not felt.
C14_LastFeltReturned ==
    [][\A w \in DOMAIN workers :
         (PassEnds(w) /\ W(w).positive = "n" /\ OnResponse(w)) =>
             /\ W(w).si > 1
             /\ PassValue(w) = W(w).seq[W(w).si - 1]]_vars

\* the intensities of an ascending sequence: from a start in 2..8 in steps of
\* delta_up while below end_up
Ascending(sq) ==
    /\ sq # <<>> => sq[1] \in 2..8
    /\ \A i \in DOMAIN sq : sq[i] < hyps.end_pwm_up
    /\ \A i \in 1..(Len(sq) - 1) : sq[i + 1] = sq[i] + hyps.delta_pwm_up
    /\ sq # <<>> => sq[Len(sq)] + hyps.delta_pwm_up >= hyps.end_pwm_up

\* C15: an ascending pass steps up by delta_up from a start in 2..8 toward
\* end_up and returns the intensity of the first positive response; a pass whose
\* sequence is exhausted, or empty, without a positive response returns end_up.
C15_AscendingPass ==
    [][\A w \in DOMAIN workers :
         /\ (PassEnds(w) /\ W(w).positive = "y") =>
               /\ Ascending(W(w).seq)
               /\ IF OnResponse(w)
                  THEN /\ W(w).answer = "y"
                       /\ PassValue(w) = W(w).seq[W(w).si]
                  ELSE /\ W(w).si = Len(W(w).seq) + 1
                       /\ PassValue(w) = hyps.end_pwm_up
         /\ (OnResponse(w) /\ W(w).positive = "y" /\ W(w).answer = "y" /\ ~W(w).stop
                /\ workers'[w].pc # "ml_poll") => PassEnds(w)]_vars

\* an ascending pass returned the second value of its sequence, felt after the
\* first was not
C15_Witness ==
    \E w \in DOMAIN workers :
        /\ W(w).pc = "ind" /\ W(w).positive = "y"
        /\ W(w).si = 2 /\ Len(W(w).seq) >= 2
        /\ W(w).results[MLMotor(W(w))][Len(W(w).results[MLMotor(W(w))])] = W(w).seq[2]

\* the motors selected by the configuration: start..end by step
SelectedMotors ==
    {m \in hyps.num_motor_start..hyps.num_motor_end :
        (m - hyps.num_motor_start) % hyps.use_motors_step = 0}

\* x is an integer nearest to the arithmetic mean of the values of list
NearestToMean(x, list) ==
    LET n == Len(list)
        d == 2 * (n * x - SumSeq(list))
    IN n > 0 /\ d <= n /\ -d <= n

\* the number of the elements of list equal to x
Count(list, x) == Cardinality({i \in DOMAIN list : list[i] = x})

\* C16: a completed threshold run emits a result that maps exactly the selected
\* motors, each to the rounded mean of exactly 2 * repeats pass results; the
\* passes of a motor are `repeats` descending and `repeats` ascending ones in the
\* order of the motor's shuffled list of directions.
C16_RunResult ==
    /\ [](\A w \in DOMAIN workers :
            (W(w).kind = "mols" /\ W(w).exit = "completed") =>
               /\ W(w).emitted
               /\ DOMAIN W(w).results_mean = SelectedMotors
               /\ DOMAIN W(w).results = SelectedMotors
               /\ \A m \in SelectedMotors :
                     /\ Len(W(w).results[m]) = 2 * hyps.exps_for_each_motor
                     /\ NearestToMean(W(w).results_mean[m], W(w).results[m]))
    /\ [][\A w \in DOMAIN workers : PassEnds(w) =>
            /\ Count(W(w).streams, 1) = hyps.exps_for_each_motor
            /\ Count(W(w).streams, 0) = hyps.exps_for_each_motor
            /\ Len(W(w).streams) = 2 * hyps.exps_for_each_motor
            /\ (W(w).positive = "n") = (W(w).streams[W(w).di] = 1)
            /\ Len(workers'[w].results[MLMotor(W(w))]) = W(w).di]_vars

\* a run on two motors is completed; the pass results of a motor have an odd sum
C16_Witness ==
    \E w \in DOMAIN workers :
        /\ W(w).kind = "mols" /\ W(w).exit = "completed"
        /\ Cardinality(DOMAIN W(w).results_mean) = 2
        /\ \E m \in DOMAIN W(w).results : SumSeq(W(w).results[m]) % 2 = 1

\* worker w presents the next intensity step of a pass in this step
StepPresented(w) == W(w).pc = "ml_probe" /\ workers'[w].pc = "ml_sleep"

\* C17: in the threshold test every intensity step is written to the motor under
\* test alone, the other motors are at zero for the time of the exposure, and
\* every motor is at zero when the next step is presented.
C17_OneMotorPerStep ==
    /\ [][\A w \in DOMAIN workers : StepPresented(w) =>
            /\ \A i \in Motors : port[i] = 0
            /\ port'[MLMotor(W(w))] = W(w).seq[W(w).si] % 256
            /\ \A i \in Motors \ {MLMotor(W(w))} : port'[i] = 0]_vars
    /\ [](\A w \in DOMAIN workers :
            (W(w).kind = "mols" /\ W(w).pc = "ml_sleep") =>
               \A i \in Motors \ {MLMotor(W(w))} : port[i] = 0)

\* the second selected motor, motor 2, is energized alone with the intensity of
\* a later step of a pass
C17_Witness ==
    \E w \in DOMAIN workers :
        /\ W(w).kind = "mols" /\ W(w).pc = "ml_sleep"
        /\ W(w).mi = 2 /\ W(w).si > 1
        /\ port = [i \in Motors |-> IF i = 2 THEN W(w).seq[W(w).si] ELSE 0]
        /\ port[2] > 0

\* C18: every intensity presented by the threshold test lies in 0..255, and the
\* byte written to the port for the motor under test equals that intensity.
C18_IntensityIsByte ==
    [][\A w \in DOMAIN workers : StepPresented(w) =>
         /\ W(w).seq[W(w).si] \in 0..255
         /\ port'[MLMotor(W(w))] = W(w).seq[W(w).si]]_vars

\* C19: for U >= 1 regions and S samples with q, r = divmod(S, U) the
\* presentation sequence of the spatial test has length S, consists of regions,
\* every region occurs q or q + 1 times in it, and exactly r regions occur
\* q + 1 times.
C19_SpatialSequence ==
    \A w \in DOMAIN workers :
        (W(w).kind = "spatial" /\ W(w).pc # "sp_begin" /\ W(w).exit # "invalid") =>
            LET regions == Range(SpatialUses(hyps))
                U == Cardinality(regions)
                S == hyps.max_counter_samples
                q == S \div U
                r == S % U
            IN /\ U >= 1
               /\ Len(W(w).seq) = S
               /\ Range(W(w).seq) \subseteq regions
               /\ \A u \in regions : Count(W(w).seq, u) \in {q, q + 1}
               /\ Cardinality({u \in regions : Count(W(w).seq, u) = q + 1}) = r

\* three regions and five samples: two of the regions occur twice
C19_Witness ==
    \E w \in DOMAIN workers :
        /\ W(w).kind = "spatial" /\ W(w).pc = "sp_next"
        /\ Len(SpatialUses(hyps)) = 3 /\ Len(W(w).seq) = 5
        /\ Cardinality({u \in Range(W(w).seq) : Count(W(w).seq, u) = 2}) = 2

\* the motors worker w has completed: those before the current one in its list
CompletedBy(w) ==
    {W(w).motors[j] : j \in {i \in DOMAIN W(w).motors : i < W(w).mi}}

\* worker w presents a stimulus of the discrimination test in this step
StimulusPresented(w) == W(w).pc = "pm_set" /\ workers'[w].pc = "pm_sleep"

\* C20: a motor the discrimination engine has completed has exactly
\* n_levels * repeats Trials, each true level in exactly `repeats` of them, after
\* as many stimuli; every stimulus is a value of a permutation of the intensity
\* schedule repeated `repeats` times and is presented on that motor alone.
C20_CompletedSchedule ==
    /\ [](\A w \in DOMAIN workers : W(w).kind = "pmpwm" =>
            \A m \in CompletedBy(w) :
               /\ Len(W(w).results[m]) = Scheduled
               /\ W(w).shown[m] = Scheduled
               /\ \A level \in 1..Len(hyps.pmpwm_pwm_values) :
                     Cardinality({i \in DOMAIN W(w).results[m] :
                                    W(w).results[m][i][1] = level}) = hyps.pmpwm_repeats)
    /\ [][\A w \in DOMAIN workers : StimulusPresented(w) =>
            /\ Len(W(w).seq) = Scheduled
            /\ \A v \in Range(hyps.pmpwm_pwm_values) :
                  Count(W(w).seq, v) = hyps.pmpwm_repeats
            /\ port' = [k \in Motors |-> IF k = PMMotor(W(w))
                                          THEN W(w).seq[W(w).si] ELSE 0]]_vars

\* motor 0 is completed with every level presented twice
C20_Witness ==
    \E w \in DOMAIN workers :
        /\ W(w).kind = "pmpwm" /\ hyps.pmpwm_repeats = 2
        /\ 0 \in CompletedBy(w)
        /\ Len(W(w).results[0]) = 4

\* the 1-based rank of the intensity v within the intensity schedule
Rank(v) == 1 + Cardinality({x \in Range(hyps.pmpwm_pwm_values) : x < v})

\* worker w records a Trial of the discrimination test in this step
TrialRecorded(w) == W(w).pc = "pm_poll" /\ workers'[w].pc = "pm_pause"
LastTrial(w) ==
    LET list == workers'[w].results[PMMotor(W(w))] IN list[Len(list)]

\* C21: the true level recorded for a presented intensity is the 1-based rank of
\* the intensity within the sorted intensity schedule, a value in 1..n_levels.
C21_TrueLevelIsRank ==
    [][\A w \in DOMAIN workers : TrialRecorded(w) =>
         /\ LastTrial(w)[1] = Rank(W(w).seq[W(w).si])
         /\ LastTrial(w)[1] \in 1..Len(hyps.pmpwm_pwm_values)]_vars

\* with the schedule 14, 22, 36 a Trial of level 3 is recorded for 36
C21_Witness ==
    \E w \in DOMAIN workers :
        /\ hyps.pmpwm_pwm_values = <<14, 22, 36>>
        /\ W(w).pc = "pm_pause" /\ W(w).seq[W(w).si] = 36
        /\ W(w).results[0][Len(W(w).results[0])][1] = 3
RowSum(matrix, i) == SumSeq(matrix[i])
TrialsAt(list, i) == Cardinality({k \in DOMAIN list : list[k][1] = i})
MatrixSum(f, i, j) == SumSeq([k \in 1..Len(Sorted(DOMAIN f)) |-> f[Sorted(DOMAIN f)[k]][i][j]])
Finalized == res' # res

\* C22: the confusion matrices built by the finish handler count every
\* recorded Trial exactly once: for each true level the row sum is the
\* number of Trials with that true level, for every motor and overall, and
\* the overall matrix is the element-wise sum of the per-motor matrices.
C22_MatricesCountTrials ==
    [][Finalized =>
         LET levels == 1..Len(hyps.pmpwm_pwm_values) IN
         /\ \A m \in DOMAIN results_pmpwm : \A i \in levels :
                RowSum(res'[1].confusion_per_motor[m], i) = TrialsAt(Stored(m), i)
         /\ \A i \in levels :
                RowSum(res'[1].confusion, i) = TrialsAt(res'[1].answers, i)
         /\ Len(res'[1].answers) = SumSeq([k \in 1..Len(Sorted(DOMAIN results_pmpwm)) |->
                                           Len(Stored(Sorted(DOMAIN results_pmpwm)[k]))])
         /\ \A i, j \in levels :
                res'[1].confusion[i][j] = MatrixSum(res'[1].confusion_per_motor, i, j)]_vars

\* one motor, levels 1, 2, 2, 1 answered 1, 2, 1, 2
C22_Witness ==
    /\ res # <<>>
    /\ DOMAIN res[1].confusion_per_motor = {0}
    /\ \E o \in {<<1, 2, 3, 4>>, <<1, 3, 2, 4>>, <<4, 2, 3, 1>>, <<4, 3, 2, 1>>,
                   <<2, 1, 4, 3>>, <<3, 1, 4, 2>>, <<2, 4, 1, 3>>, <<3, 4, 1, 2>>} :
          res[1].answers = [k \in 1..4 |-> <<<<1, 1>>, <<2, 2>>, <<2, 1>>, <<1, 2>>>>[o[k]]]
    /\ res[1].confusion = <<<<1, 1>>, <<1, 1>>>>
    /\ res[1].mean_accuracy[1] * 2 = res[1].mean_accuracy[2]

C22_TwoMotors ==
    /\ res # <<>>
    /\ Cardinality(DOMAIN res[1].confusion_per_motor) = 2
    /\ Len(res[1].answers) = 4

\* ------------------------------------------------------------------------
\* Analysis of a confusion matrix (core/pmpwm_analysis.py)

\* the counts the entries of an n x n matrix are drawn from
Counts(n) == IF n <= 2 THEN {0, 1, 3, 9, 10} ELSE IF n = 3 THEN {0, 1, 6} ELSE {0, 6}
Matrices == UNION {[1..n -> [1..n -> Counts(n)]] : n \in 1..MaxLevels}

\* the intensity lists: sorted lists of distinct values
PwmPool == {14, 15, 22, 36}
PwmLists(n) == {Sorted(S) : S \in {T \in SUBSET PwmPool : Cardinality(T) = n}}

\* no test is running: the state of the main window before a test is started
NoTest ==
    /\ hyps = PMHyps
    /\ motors_all = <<>>
    /\ motors_completed = {}
    /\ results_pmpwm = <<>>
    /\ pending = <<>>
    /\ current_motor = NoneMotor
    /\ finishShown = FALSE
    /\ workers = <<>>
    /\ cur = 0
    /\ port = Zeros
    /\ staleCmd = FALSE
    /\ gui = "idle" /\ cont = NoCont /\ waitLeft = 0
    /\ evq = <<>>
    /\ probeOpen = FALSE /\ trainOpen = FALSE /\ timers = 0
    /\ res = <<>> /\ ser = TRUE

testVars == <<hyps, workers, cur, port, staleCmd, gui, cont, waitLeft, evq, probeOpen,
              trainOpen, timers, motors_all, motors_completed, results_pmpwm, pending,
              current_motor, finishShown, res, ser>>

\* x < y for fractions with positive denominators
Less(x, y) == x[1] * y[2] < y[1] * x[2]

\* round(a / d) for a >= 0, d > 0: the nearest integer, a tie goes to the even one
RoundDiv(a, d) ==
    LET q == a \div d
        twice == 2 * (a % d)
    IN IF twice < d THEN q
       ELSE IF twice > d THEN q + 1
       ELSE IF q % 2 = 0 THEN q ELSE q + 1

\* round(x, 4) of the fraction x, in units of 0.0001
Round4(x) == RoundDiv(10000 * x[1], x[2])

\* a divisor that is the total of the whole matrix
WholeTotal(m, i) ==
    IF SumSeq([k \in DOMAIN m |-> SumSeq(m[k])]) < 1 THEN 1
    ELSE SumSeq([k \in DOMAIN m |-> SumSeq(m[k])])

\* cm.sum(axis=1, keepdims=True).clip(min=1), row i
Divisor(m, i) == IF SumSeq(m[i]) < 1 THEN 1 ELSE SumSeq(m[i])

\* cm_norm = cm / cm.sum(axis=1, keepdims=True).clip(min=1)
Norm(m) == [i \in DOMAIN m |-> [j \in DOMAIN m |-> <<m[i][j], Divisor(m, i)>>]]

\* acc = {i+1: float(cm_norm[i, i])}
Acc(m) == [i \in DOMAIN m |-> Norm(m)[i][i]]

\* bad = [lvl for lvl, a in acc.items() if a < .75]; bad.sort()
Bad(acc) == Sorted({lvl \in DOMAIN acc : Less(acc[lvl], <<3, 4>>)})

\* a grouping whose key is the same for every element
GroupAll(list, c) == IF list = <<>> THEN <<>> ELSE <<list>>

\* itertools.groupby(bad, key=lambda x, c=itertools.count(): x - next(c)):
\* neighbours with the same key x - c share a group, c counts from the given value
RECURSIVE GroupBy(_, _)
GroupBy(list, c) ==
    IF list = <<>> THEN <<>>
    ELSE LET rest == GroupBy(Tail(list), c + 1)
         IN IF rest # <<>> /\ Head(rest)[1] - (c + 1) = Head(list) - c
            THEN <<<<Head(list)>> \o Head(rest)>> \o Tail(rest)
            ELSE <<<<Head(list)>>>> \o rest

\* the entry of one group of low levels: "Удалить уровень ..." / "Объединить уровни ..."
GroupEntry(g, pwm) ==
    IF Len(g) = 1
    THEN [kind |-> "remove", levels |-> g, pwm |-> pwm[g[1]]]
    ELSE [kind |-> "merge", levels |-> g, pwm |-> RoundMean([k \in DOMAIN g |-> pwm[g[k]]])]

\* range(n) x range(i+1, n) in the order of the two loops, 1-based
RECURSIVE PairsFrom(_, _, _)
PairsFrom(i, j, n) ==
    IF i > n THEN <<>>
    ELSE IF j > n THEN PairsFrom(i + 1, i + 2, n)
    ELSE <<<<i, j>>>> \o PairsFrom(i, j + 1, n)

\* a test that one direction of confusion satisfies
Either(norm, pr) ==
    \/ ~Less(norm[pr[1]][pr[2]], <<1, 10>>)
    \/ ~Less(norm[pr[2]][pr[1]], <<1, 10>>)

\* cm_norm[i,j] >= .10 and cm_norm[j,i] >= .10
Mutual(norm, pr) ==
    /\ ~Less(norm[pr[1]][pr[2]], <<1, 10>>)
    /\ ~Less(norm[pr[2]][pr[1]], <<1, 10>>)

\* pair_err
PairErr(norm) ==
    LET Test(pr) == Mutual(norm, pr)
    IN SelectSeq(PairsFrom(1, 2, Len(norm)), Test)

\* the list rec of a call starts from the list the call before left
SharedList(before) == before

\* rec: list[str] = []
FreshList(before) == <<>>

\* _recommend(cm_norm, acc, pwm_vals); before = the list an earlier call returned
Recommend(norm, acc, pwm, before) ==
    IF Bad(acc) # <<>>
    THEN FreshList(before) \o
         [k \in DOMAIN GroupBy(Bad(acc), 0) |-> GroupEntry(GroupBy(Bad(acc), 0)[k], pwm)]
    ELSE IF PairErr(norm) # <<>>
    THEN FreshList(before) \o
         <<[kind |-> "confusion", levels |-> PairErr(norm)[1],
            pwm |-> RoundMean(<<pwm[PairErr(norm)[1][1]], pwm[PairErr(norm)[1][2]]>>)]>>
    ELSE FreshList(before) \o <<[kind |-> "none", levels |-> <<>>, pwm |-> 0]>>

\* analyse_cm(cm, pwm_vals): the dict returned, the fractions rounded to 4 decimals
analyse_cm(m, pwm, before) ==
    [confusion |-> m,
     confusion_norm |-> [i \in DOMAIN m |-> [j \in DOMAIN m |-> Round4(Norm(m)[i][j])]],
     accuracy |-> [i \in DOMAIN m |-> Round4(Acc(m)[i])],
     mean_accuracy |-> Round4(MeanFrac(Acc(m))),
     recommendations |-> Recommend(Norm(m), Acc(m), pwm, before)]

\* the list the call before this one returned
Before == IF ret = <<>> THEN <<>> ELSE ret[1].recommendations

\* seen = <<matrix, list, result, calls with other arguments since, called again>>
SameArgs == seen # <<>> /\ seen[1] = cm /\ seen[2] = pwm_vals

\* generate_summary: summary_per_motor[motor_id] = analyse_cm(cm, pwm_values);
\* the call works on cm.astype(int), a copy, and only reads pwm_vals
AnalyseCm(remember) ==
    /\ cm # <<>>
    /\ ret' = <<analyse_cm(cm, pwm_vals, Before)>>
    /\ seen' = IF seen = <<>>
               THEN IF remember THEN <<cm, pwm_vals, ret'[1], 0, FALSE>> ELSE seen
               ELSE IF SameArgs THEN [seen EXCEPT ![5] = @ \/ seen[4] > 0]
               ELSE [seen EXCEPT ![4] = 1]
    /\ UNCHANGED <<cm, pwm_vals, answers, sel, out, testVars>>

\* generate_summary: the next confusion matrix of conf_by_mtr, or of another report
LoadMatrix(m, pwm) ==
    /\ cm # <<>>
    /\ cm' = m /\ pwm_vals' = pwm
    /\ UNCHANGED <<answers, ret, seen, sel, out, testVars>>

\* generate_summary has loaded a confusion matrix and the intensity list of a result
InitCM ==
    /\ NoTest
    /\ cm \in Matrices
    /\ pwm_vals \in PwmLists(Len(cm))
    /\ answers = <<>> /\ ret = <<>> /\ seen = <<>> /\ NoReport

NextCM == AnalyseCm(FALSE)

SpecCM == InitCM /\ [][NextCM]_vars

\* the matrices and lists of the reports that are analysed one after another
PureMatrices == {m \in Matrices : Len(m) = 2 /\ \A i, j \in 1..2 : m[i][j] \in {0, 3}}
PurePwm == {pwm \in PwmLists(2) : pwm[1] = 14 /\ pwm[2] # 15}

InitPure ==
    /\ NoTest
    /\ cm \in PureMatrices
    /\ pwm_vals \in PurePwm
    /\ answers = <<>> /\ ret = <<>> /\ seen = <<>> /\ NoReport

NextPure ==
    \/ \E remember \in BOOLEAN : AnalyseCm(remember)
    \/ \E m \in PureMatrices, pwm \in PurePwm : LoadMatrix(m, pwm)

SpecPure == InitPure /\ [][NextPure]_vars

\* ------------------------------------------------------------------------
\* Analysis of the spatial answers (core/spatial_analysis.py)

\* stats after the loop over the answers: region -> total, correct, answers
RECURSIVE SpatialStats(_)
SpatialStats(list) ==
    IF list = <<>> THEN <<>>
    ELSE LET st == SpatialStats(SubSeq(list, 1, Len(list) - 1))
             true == list[Len(list)][1]
             pred == list[Len(list)][2]
             old == IF true \in DOMAIN st THEN st[true]
                    ELSE [total |-> 0, correct |-> 0, answers |-> <<>>]
             new == [total |-> old.total + 1,
                     correct |-> old.correct + (IF true = pred THEN 1 ELSE 0),
                     answers |-> (pred :> (IF pred \in DOMAIN old.answers
                                           THEN old.answers[pred] + 1 ELSE 1)) @@ old.answers]
         IN (true :> new) @@ st

\* sum(st[field] for st in stats.values())
RECURSIVE SumTotal(_, _)
SumTotal(st, S) == IF S = {} THEN 0
                   ELSE LET r == CHOOSE x \in S : TRUE
                        IN st[r].total + SumTotal(st, S \ {r})
RECURSIVE SumCorrect(_, _)
SumCorrect(st, S) == IF S = {} THEN 0
                     ELSE LET r == CHOOSE x \in S : TRUE
                          IN st[r].correct + SumCorrect(st, S \ {r})

\* st['correct'] / max(1, st['total'])
RegionAccuracy(st, r) == <<st[r].correct, IF st[r].total < 1 THEN 1 ELSE st[r].total>>

\* the average of the accuracies of the regions
MeanOfRegions(st) ==
    MeanFrac([k \in 1..Cardinality(DOMAIN st) |-> RegionAccuracy(st, Sorted(DOMAIN st)[k])])

\* mean_acc = sum of correct / max(1, sum of total)
OverallMean(st) ==
    <<SumCorrect(st, DOMAIN st),
      IF SumTotal(st, DOMAIN st) < 1 THEN 1 ELSE SumTotal(st, DOMAIN st)>>

\* analyse_spatial(answers): the dict returned
analyse_spatial(list) ==
    [regions |-> [r \in DOMAIN SpatialStats(list) |->
                     [total |-> SpatialStats(list)[r].total,
                      correct |-> SpatialStats(list)[r].correct,
                      answers |-> SpatialStats(list)[r].answers,
                      accuracy |-> RegionAccuracy(SpatialStats(list), r)]],
     mean_accuracy |-> OverallMean(SpatialStats(list))]

\* generate_summary: spatial_data = analyse_spatial(answers)
AnalyseSpatial ==
    /\ cm = <<>> /\ ret = <<>>
    /\ ret' = <<analyse_spatial(answers)>>
    /\ UNCHANGED <<cm, pwm_vals, answers, seen, sel, out, testVars>>

\* the answers loaded from a report of the spatial test
AnswerLists == UNION {[1..n -> (1..MaxRegions) \X (1..MaxRegions)] : n \in 0..MaxPairs}

InitSp ==
    /\ NoTest
    /\ answers \in AnswerLists
    /\ cm = <<>> /\ pwm_vals = <<>> /\ ret = <<>> /\ seen = <<>> /\ NoReport

NextSp == AnalyseSpatial

SpecSp == InitSp /\ [][NextSp]_vars

\* ------------------------------------------------------------------------
\* generate_summary (core/report_utils.py)
\* ------------------------------------------------------------------------
\* the keys of a JSON object are texts: int(k)
MotorKeys == {"0", "1"}
IntOf(k) == IF k = "0" THEN 0 ELSE 1

\* {int(k): v for k, v in json.load(f).items()}
Rekey(f) == [m \in {IntOf(k) : k \in DOMAIN f} |-> f[CHOOSE k \in DOMAIN f : IntOf(k) = m]]

\* generate_summary(sel); a file that was not selected is None (here <<>>), and
\* open(None) raises TypeError before anything is written
generate_summary(s) ==
    IF s.pmpwm = <<>>
    THEN [raised |-> TRUE, mols |-> <<>>, spatial |-> <<>>, pmpwm |-> <<>>]
    ELSE [raised |-> FALSE,
          mols |-> IF s.mols = <<>> THEN <<>> ELSE <<Rekey(s.mols[1])>>,
          spatial |-> IF s.spatial = <<>> THEN <<>> ELSE <<analyse_spatial(s.spatial[1])>>,
          pmpwm |-> <<[pwm_values |-> s.pmpwm[1].pwm_values,
                       motors |-> [m \in DOMAIN Rekey(s.pmpwm[1].confusion_per_motor) |->
                                      analyse_cm(Rekey(s.pmpwm[1].confusion_per_motor)[m],
                                                 s.pmpwm[1].pwm_values, <<>>)]]>>]

\* MainWindow.open_analysis_dialog: out = generate_summary(sel)
GenerateSummary ==
    /\ sel # <<>> /\ out = <<>>
    /\ out' = <<generate_summary(sel[1])>>
    /\ UNCHANGED <<cm, pwm_vals, answers, ret, seen, sel, testVars>>

\* the files the operator can select: each of them or none
MolsFiles == {<<>>} \cup {<<f>> : f \in UNION {[K -> {0, 20}] : K \in SUBSET MotorKeys}}
SpatialFiles == {<<>>} \cup {<<a>> : a \in {l \in AnswerLists : Len(l) <= 1}}
ReportMatrices == {m \in PureMatrices : m[1][2] = 0 /\ m[2][2] = 3}
PmpwmFiles ==
    {<<>>} \cup {<<[pwm_values |-> pwm, confusion_per_motor |-> f]>> :
                    pwm \in PurePwm,
                    f \in UNION {[K -> ReportMatrices] : K \in SUBSET MotorKeys}}

\* AnalysisDialog.selections() has returned and every selected file exists
InitRep ==
    /\ NoTest
    /\ cm = <<>> /\ pwm_vals = <<>> /\ answers = <<>> /\ ret = <<>> /\ seen = <<>>
    /\ sel \in {<<[mols |-> a, spatial |-> b, pmpwm |-> c]>> :
                   a \in MolsFiles, b \in SpatialFiles, c \in PmpwmFiles}
    /\ out = <<>>

NextRep == GenerateSummary

SpecRep == InitRep /\ [][NextRep]_vars

\* analyse_cm has returned for the matrix cm
Analysed == cm # <<>> /\ ret # <<>>
Levels == DOMAIN cm
Unit == 10000                  \* 1.0 in units of 0.0001

\* C23 (as stated): the returned normalized entries and accuracies lie in [0, 1],
\* the returned entries of every non-empty row sum to 1, a category without trials
\* has accuracy 0 and the returned mean accuracy is the arithmetic mean of the
\* returned accuracies and lies in [0, 1].
C23_RowsSumToOne ==
    Analysed =>
        /\ \A i \in Levels : \A j \in Levels : ret[1].confusion_norm[i][j] \in 0..Unit
        /\ \A i \in Levels : ret[1].accuracy[i] \in 0..Unit
        /\ \A i \in Levels : SumSeq(cm[i]) > 0 => SumSeq(ret[1].confusion_norm[i]) = Unit
        /\ \A i \in Levels : SumSeq(cm[i]) = 0 => ret[1].accuracy[i] = 0
        /\ ret[1].mean_accuracy \in 0..Unit
        /\ ret[1].mean_accuracy * Len(cm) = SumSeq(ret[1].accuracy)

\* C23 (amended): the returned values are the quotients count / max(1, row sum)
\* rounded to four decimals: every returned entry and accuracy lies in [0, 1] and
\* is within 0.0001 of its quotient, the returned entries of a non-empty row sum
\* to 1 within 0.0001 per category, a category without trials has accuracy 0, and
\* the returned mean accuracy lies in [0, 1] within 0.0001 of the arithmetic mean
\* of the quotients on the diagonal.
C23_RowsSumToOneRounded ==
    Analysed =>
        LET Row(i) == IF SumSeq(cm[i]) > 0 THEN SumSeq(cm[i]) ELSE 1
            diag == [i \in Levels |-> <<cm[i][i], Row(i)>>]
        IN
        /\ \A i \in Levels : \A j \in Levels :
              /\ ret[1].confusion_norm[i][j] \in 0..Unit
              /\ Abs(Unit * cm[i][j] - ret[1].confusion_norm[i][j] * Row(i)) < Row(i)
        /\ \A i \in Levels :
              /\ ret[1].accuracy[i] \in 0..Unit
              /\ ret[1].accuracy[i] = ret[1].confusion_norm[i][i]
        /\ \A i \in Levels :
              SumSeq(cm[i]) > 0 => Abs(SumSeq(ret[1].confusion_norm[i]) - Unit) < Len(cm)
        /\ \A i \in Levels : SumSeq(cm[i]) = 0 => ret[1].accuracy[i] = 0
        /\ ret[1].mean_accuracy \in 0..Unit
        /\ Abs(Unit * SumFracs(diag)[1] - ret[1].mean_accuracy * SumFracs(diag)[2] * Len(cm))
              < SumFracs(diag)[2] * Len(cm)

\* thirds: every row of the returned matrix sums to 0.9999
C23_Witness ==
    /\ Analysed
    /\ cm = <<<<1, 1, 1>>, <<1, 1, 1>>, <<0, 0, 0>>>>
    /\ ret[1].confusion_norm[1] = <<3333, 3333, 3333>>
    /\ ret[1].accuracy = <<3333, 3333, 0>>
    /\ ret[1].mean_accuracy = 2222

\* the categories with accuracy below 0.75 and their maximal runs
Low == {i \in Levels : 4 * cm[i][i] < 3 * (IF SumSeq(cm[i]) > 0 THEN SumSeq(cm[i]) ELSE 1)}
Runs == {r \in Levels \X Levels :
            /\ r[1] <= r[2]
            /\ \A k \in r[1]..r[2] : k \in Low
            /\ r[1] - 1 \notin Low
            /\ r[2] + 1 \notin Low}
Recs == ret[1].recommendations

\* v is the mean of the intensities of the levels a..b rounded to an integer
IsRoundedMean(v, a, b) ==
    LET total == SumSeq([k \in 1..(b - a + 1) |-> pwm_vals[a + k - 1]])
    IN 2 * Abs(v * (b - a + 1) - total) <= b - a + 1

\* C24: when some category has accuracy below 0.75 the recommendations are one
\* entry per maximal run of consecutive low categories, in ascending order: a
\* removal for a run of one, a merge with the rounded mean of the run's
\* intensities for a longer run, and no other kind of entry.
C24_OneEntryPerRun ==
    (Analysed /\ Low # {}) =>
        /\ Len(Recs) = Cardinality(Runs)
        /\ \A k \in DOMAIN Recs :
              LET a == Recs[k].levels[1]
                  b == Recs[k].levels[Len(Recs[k].levels)]
              IN /\ <<a, b>> \in Runs
                 /\ Recs[k].levels = [x \in 1..(b - a + 1) |-> a + x - 1]
                 /\ k > 1 => Recs[k - 1].levels[1] < a
                 /\ a = b => Recs[k].kind = "remove" /\ Recs[k].pwm = pwm_vals[a]
                 /\ a < b => Recs[k].kind = "merge" /\ IsRoundedMean(Recs[k].pwm, a, b)

\* levels 1 and 2 are low and merged at round(14.5) = 14, level 3 is kept
C24_Witness ==
    /\ Analysed /\ Low = {1, 2} /\ Len(cm) = 3
    /\ pwm_vals = <<14, 15, 36>>
    /\ Recs = <<[kind |-> "merge", levels |-> <<1, 2>>, pwm |-> 14]>>

\* levels 1 and 3 are low, level 2 is not: two removals
C24_TwoRuns ==
    /\ Analysed /\ Low = {1, 3} /\ Len(cm) = 3
    /\ Len(Recs) = 2 /\ Recs[1].kind = "remove" /\ Recs[2].levels = <<3>>

\* the pairs i < j confused in both directions at 0.10 or more
Confused == {pr \in Levels \X Levels :
                /\ pr[1] < pr[2]
                /\ 10 * cm[pr[1]][pr[2]] >= SumSeq(cm[pr[1]])
                /\ 10 * cm[pr[2]][pr[1]] >= SumSeq(cm[pr[2]])
                /\ cm[pr[1]][pr[2]] > 0 /\ cm[pr[2]][pr[1]] > 0}
FirstConfused == CHOOSE pr \in Confused : \A o \in Confused :
                     pr[1] < o[1] \/ (pr[1] = o[1] /\ pr[2] <= o[2])

\* the one entry of steps 2 and 3, but for the suggested intensity
OneEntry ==
    /\ Len(Recs) = 1
    /\ Confused # {} => Recs[1].kind = "confusion" /\ Recs[1].levels = FirstConfused
    /\ Confused = {} => Recs[1].kind = "none"

\* C25 (as stated): when every category has accuracy 0.75 or more the list has
\* exactly one entry: a merge of the first pair confused in both directions at
\* 0.10 or more, with the mean of the two intensities, or else the statement
\* that no correction is needed.
C25_FirstMutualPair ==
    (Analysed /\ Low = {}) =>
        /\ OneEntry
        /\ Confused # {} =>
              2 * Recs[1].pwm = pwm_vals[FirstConfused[1]] + pwm_vals[FirstConfused[2]]

\* C25 (amended): the same, the suggested intensity being the mean of the two
\* intensities rounded to an integer.
C25_FirstMutualPairRounded ==
    (Analysed /\ Low = {}) =>
        /\ OneEntry
        /\ Confused # {} =>
              Abs(2 * Recs[1].pwm - pwm_vals[FirstConfused[1]] - pwm_vals[FirstConfused[2]]) <= 1

\* every pair of three levels is confused: the first pair is merged at round(14.5)
C25_Witness ==
    /\ Analysed /\ Low = {}
    /\ cm = <<<<6, 1, 1>>, <<1, 6, 1>>, <<1, 1, 6>>>>
    /\ pwm_vals = <<14, 15, 36>>
    /\ Recs = <<[kind |-> "confusion", levels |-> <<1, 2>>, pwm |-> 14]>>

\* one direction of confusion only: no correction
C25_NoCorrection ==
    /\ Analysed /\ Low = {}
    /\ cm = <<<<3, 1>>, <<0, 3>>>>
    /\ Recs[1].kind = "none"

\* a confusion of exactly 0.10 in both directions counts
C25_AtThreshold ==
    /\ Analysed /\ Low = {}
    /\ cm = <<<<9, 1>>, <<1, 9>>>>
    /\ Recs[1].kind = "confusion"

Reduced == cm = <<>> /\ ret # <<>>
PairsOf(r) == {k \in DOMAIN answers : answers[k][1] = r}
Hits == {k \in DOMAIN answers : answers[k][1] = answers[k][2]}
RECURSIVE SumValues(_, _)
SumValues(f, S) == IF S = {} THEN 0
                   ELSE LET x == CHOOSE y \in S : TRUE IN f[x] + SumValues(f, S \ {x})

\* C27: for every list of (true, response) pairs the total of a region is the
\* number of pairs with that true region, its response distribution sums to the
\* total, its accuracy is correct / total, and the mean accuracy is the total
\* of correct answers over the total of trials, 0 for the empty list.
C27_SpatialReducer ==
    Reduced =>
        LET regions == ret[1].regions
            mean == ret[1].mean_accuracy
        IN /\ DOMAIN regions = {answers[k][1] : k \in DOMAIN answers}
           /\ \A r \in DOMAIN regions :
                 /\ regions[r].total = Cardinality(PairsOf(r))
                 /\ SumValues(regions[r].answers, DOMAIN regions[r].answers) = regions[r].total
                 /\ \A p \in DOMAIN regions[r].answers :
                       regions[r].answers[p] =
                           Cardinality({k \in PairsOf(r) : answers[k][2] = p})
                 /\ regions[r].accuracy[1] * Cardinality(PairsOf(r))
                       = Cardinality(PairsOf(r) \cap Hits) * regions[r].accuracy[2]
           /\ answers # <<>> => mean[1] * Len(answers) = Cardinality(Hits) * mean[2]
           /\ answers = <<>> => mean[1] = 0

\* two hits in region 1, a miss in region 2: the mean is 2/3, the regions average 1/2
C27_Witness ==
    /\ Reduced
    /\ answers = <<<<1, 1>>, <<1, 1>>, <<2, 1>>>>
    /\ ret[1].mean_accuracy = <<2, 3>>
    /\ ret[1].regions[1].accuracy = <<2, 2>>
    /\ ret[1].regions[2].accuracy = <<0, 1>>

C27_EmptyList == Reduced /\ answers = <<>> /\ ret[1].mean_accuracy = <<0, 1>>

\* an actuation call of worker w fails in this step
ActuationFails(w) == ~ser /\ PMActuates(W(w)) /\ workers'[w].pc = "done"

\* C28: an actuation call made during a run while no port is connected aborts
\* the run with the outcome of an operator cancellation: the run is reported
\* as cancelled, the application goes on, no Trial is recorded for the stimulus in
\* flight and no completed result is delivered.
C28_UnavailableCancels ==
    [][\A w \in DOMAIN workers : ActuationFails(w) =>
          /\ workers'[w].exit = "cancelled"
          /\ gui' # "crashed"
          /\ workers'[w].results = W(w).results
          /\ ~workers'[w].emitted]_vars

\* the part of it the code keeps: no Trial for the stimulus, no completed result
C28_NoTrialNoResult ==
    [][\A w \in DOMAIN workers : ActuationFails(w) =>
          /\ workers'[w].results = W(w).results
          /\ ~workers'[w].emitted]_vars

\* the device was unplugged after the first Trial and the next stimulus failed
C28_Reached ==
    \E w \in DOMAIN workers :
        /\ ~ser /\ W(w).pc = "done" /\ W(w).exit = "error"
        /\ Len(W(w).results[0]) = 1

\* the configuration has an empty motor range or no region
Malformed(h) == FirstMotors(h) = <<>> /\ (h.kind = "spatial" => SpatialUses(h) = <<>>)

\* C29: in every test kind a configuration with an empty motor range or without
\* regions is detected before any hardware access and the run never starts: the
\* engine issues no hardware command, raises no arithmetic error and emits no
\* result.
C29_MalformedNeverStarts ==
    Malformed(hyps) =>
        \A w \in DOMAIN workers :
            /\ W(w).lastCmd = "none"
            /\ W(w).exit # "error"
            /\ ~W(w).emitted

\* the spatial engine does detect it: `if not uses: return`
C29_SpatialNeverStarts ==
    (Malformed(hyps) /\ hyps.kind = "spatial") =>
        \A w \in DOMAIN workers :
            W(w).lastCmd = "none" /\ W(w).exit \in {"-", "invalid"} /\ ~W(w).emitted

\* the discrimination engine fires the end indicator and then divides by zero
C29_DiscriminationFails ==
    /\ hyps = PMEmptyHyps
    /\ \E w \in DOMAIN workers :
          W(w).indicated /\ W(w).lastCmd = "zero" /\ W(w).exit = "error"

\* the threshold engine emits an empty result
C29_ThresholdEmits ==
    /\ hyps = MolsEmptyHyps
    /\ \E w \in DOMAIN workers :
          W(w).emitted /\ W(w).exit = "completed" /\ W(w).results_mean = <<>>

\* the operator opens the training window while a worker runs: _open_training
\* reads _current_motor, the value the progress handler stored last
TrainingStops == gui = "idle" /\ gui' = "wait" /\ cont'.op = "train"

\* the worker is inside the loop over the steps of one motor
InMotorLoop(r) == r.pc \in {"pm_set", "pm_sleep", "pm_poll", "pm_pause"}

\* C30: progress reporting never affects sequencing or outcome: the motor that is
\* dropped and run again when the operator opens the training window is the motor
\* the engine is running, whatever progress events the observer has processed.
C30_ProgressNeverSequences ==
    [][(TrainingStops /\ InMotorLoop(W(cur))) => cont'.motor = PMMotor(W(cur))]_vars

\* the engine runs motor 1, the observer has processed the progress of motor 0 only
C30_StaleMotor ==
    /\ gui = "wait" /\ cont.op = "train" /\ cont.motor = 0
    /\ InMotorLoop(W(cont.w)) /\ PMMotor(W(cont.w)) = 1

\* with every progress event of the motor processed the two agree
C30_AfterProgress ==
    [][(TrainingStops /\ InMotorLoop(W(cur)) /\ W(cur).stims > 0
          /\ W(cur).shown[PMMotor(W(cur))] > 0)
         => cont'.motor = PMMotor(W(cur))]_vars

\* the 'Stop' / 'Home' handler sends its motor reset and closes the probe window
GuiReset == probeOpen /\ ~probeOpen' /\ res' = res /\ hyps.kind # "spatial"

\* C31: the control context issues no hardware command while an engine worker is
\* still running: the motor reset of the 'Stop' and 'Home' handlers happens only
\* after the worker has terminated.
C31_ResetAfterWorkerEnds ==
    [][GuiReset => \A w \in DOMAIN workers : ~isRunning(w)]_vars

\* the part the code keeps: the reset follows the wait, and a wait that returns
\* True has seen the worker end
C31_ResetAfterWait ==
    [][(GuiReset /\ gui = "wait" /\ ~(SleepDur(W(cont.w)) > 0 /\ SleepNeed(W(cont.w)) >= waitLeft))
         => ~isRunning(cont.w)]_vars

\* wait(1000) has timed out on a worker in its end indicator and the handler has reset
C31_ResetWhileRunning ==
    /\ ~probeOpen /\ gui = "idle" /\ hyps.kind = "pmpwm"
    /\ \E w \in DOMAIN workers : isRunning(w) /\ W(w).stop /\ W(w).pc = "ind"


\* a worker that waits for the patient with an empty slot and no stop request
Waiting(w) == W(w).pc \in AwaitPcs /\ W(w).answer = EmptySlot(W(w).kind) /\ ~W(w).stop

\* C32: there is no response timeout: in every test kind a worker that waits for the
\* patient with an empty slot and no stop request stays in the wait, sends nothing
\* to the motors and records nothing.
C32_NoResponseTimeout ==
    [][\A w \in DOMAIN workers :
          Waiting(w) =>
             /\ workers'[w].pc = W(w).pc
             /\ workers'[w].results = W(w).results
             /\ workers'[w].answers = W(w).answers
             /\ workers'[w].streams = W(w).streams
             /\ workers'[w].results_mean = W(w).results_mean
             /\ workers'[w].lastCmd = W(w).lastCmd
             /\ workers'[w].stims = W(w).stims
             /\ workers'[w].emitted = W(w).emitted]_vars

\* a worker has left a response wait of each kind after an answer
C32_LeftAfterAnswer ==
    \E w \in DOMAIN workers :
        /\ W(w).pc \in PausePcs /\ ~W(w).stop
        /\ W(w).kind = "pmpwm" => Trials(W(w)) > 0

\* the thread of worker w has ended: run() has returned, or the application has
\* been aborted by an unhandled exception
Terminated(w) == ~isRunning(w) \/ ~Alive

\* C33: cancellation is always effective: once stop() has been called on a worker
\* it eventually terminates, from whatever statement it was at, without any
\* further answer of the patient.
C33_StopTerminates ==
    \A w \in 1..MaxWorkers :
        (w \in DOMAIN workers /\ W(w).stop) ~> (w \in DOMAIN workers /\ Terminated(w))

\* a worker stopped while it waited for the answer has returned
C33_StoppedInWait ==
    \E w \in DOMAIN workers :
        W(w).stop /\ W(w).stopAt \in AwaitPcs /\ ~isRunning(w) /\ W(w).exit = "cancelled"

\* generate_summary has returned or raised
Reported == sel # <<>> /\ out # <<>>

\* the summary holds null for a test without a file, and the analysis of exactly
\* the motors of the discrimination file
SummaryOf(s, o) ==
    /\ ~o.raised
    /\ s.mols = <<>> => o.mols = <<>>
    /\ s.mols # <<>> => o.mols # <<>> /\ DOMAIN o.mols[1] = {IntOf(k) : k \in DOMAIN s.mols[1]}
    /\ s.spatial = <<>> => o.spatial = <<>>
    /\ s.spatial # <<>> => o.spatial # <<>>
    /\ s.pmpwm # <<>> =>
          /\ o.pmpwm # <<>>
          /\ DOMAIN o.pmpwm[1].motors =
                {IntOf(k) : k \in DOMAIN s.pmpwm[1].confusion_per_motor}

\* C34: the report reducer has no error condition for tests that were not run:
\* for any subset of the three results generate_summary produces the summary, with
\* null for an absent threshold or spatial result and without the motors that have
\* no discrimination data, and an absent discrimination result is no error either.
C34_AnySubsetSummarised == Reported => SummaryOf(sel[1], out[1])

\* with a discrimination file the summary is produced for every choice of the other two
C34_WithDiscrimination == (Reported /\ sel[1].pmpwm # <<>>) => SummaryOf(sel[1], out[1])

\* generate_summary was called without a discrimination file
C34_NoDiscrimination == Reported /\ sel[1].pmpwm = <<>> /\ out[1].raised

\* the trials i and j recorded by worker w were stimuli on different regions
OtherRegion(w, i, j) == W(w).seq[i] # W(w).seq[j]

\* C35: in every configuration the spatial dialog can produce each region has its
\* own region index: two stimuli on different regions (different motors in single
\* mode, different pairs in pairs mode) are never recorded with the same true_region.
C35_RegionIndexUnique ==
    \A w \in DOMAIN workers : \A i, j \in DOMAIN W(w).answers :
        OtherRegion(w, i, j) => W(w).answers[i][1] # W(w).answers[j][1]

\* the region index is unique in pairs mode, and in single mode with step 1
C35_UniqueWithMatchingStep ==
    (hyps.spatial_mode = "pairs" \/ hyps.use_motors_step = 1) =>
        \A w \in DOMAIN workers : \A i, j \in DOMAIN W(w).answers :
            OtherRegion(w, i, j) => W(w).answers[i][1] # W(w).answers[j][1]

\* single mode with the step 2 the dialog preselects: two motors, one region index
C35_TwoMotorsOneIndex ==
    /\ hyps.spatial_mode = "single" /\ hyps.use_motors_step = 2
    /\ \E w \in DOMAIN workers : \E i, j \in DOMAIN W(w).answers :
          OtherRegion(w, i, j) /\ W(w).answers[i][1] = W(w).answers[j][1]

\* every motor of motors_all is completed and has stored Trials
AllStored ==
    /\ motors_completed = Range(motors_all)
    /\ \A m \in Range(motors_all) : m \in DOMAIN results_pmpwm

\* C36: the discrimination test can be finalized only when every motor of
\* motors_all is completed and no worker is running: 'finish' is not available
\* while a rewritten motor is being re-run or has no stored Trials.
C36_FinishOnlyWhenStored == (probeOpen /\ finishShown) => AllStored

\* the same with its other half: and no worker is running (the button is shown by
\* the slot of the last motorFinished, before the worker has returned)
C36_FinishOnlyWhenComplete ==
    (probeOpen /\ finishShown) =>
        AllStored /\ \A w \in DOMAIN workers : ~isRunning(w)

\* 'finish' is available while the worker of a rewrite re-runs a motor that has
\* no stored Trials
C36_FinishDuringRewrite ==
    /\ probeOpen /\ finishShown /\ gui = "idle"
    /\ cur # 0 /\ isRunning(cur) /\ W(cur).by = "rewrite"
    /\ \E m \in Range(W(cur).motors) : m \notin motors_completed /\ m \notin DOMAIN results_pmpwm

\* the GUI thread runs the slot of a motorFinished signal
MotorDoneSlot ==
    /\ gui = "idle" /\ evq # <<>> /\ Head(evq).sig = "motorFinished"
    /\ evq' = Tail(evq)

\* C37: the Trials stored in results_pmpwm[m] when m is marked completed are those
\* of the worker that emitted motorFinished(m): a motorFinished of a stopped and
\* replaced worker neither stores data of the new worker for m nor looks up a
\* motor the new worker does not own.
C37_StoredFromEmitter ==
    [][MotorDoneSlot =>
          /\ gui' # "crashed"
          /\ Head(evq).motor \in DOMAIN results_pmpwm'
          /\ results_pmpwm'[Head(evq).motor] = <<Head(evq).w, Head(evq).motor>>]_vars

\* as long as the emitter is still MainWindow.worker its Trials are stored
C37_StoredFromCurrent ==
    [][(MotorDoneSlot /\ Head(evq).w = cur) =>
          /\ gui' # "crashed"
          /\ Head(evq).motor \in DOMAIN results_pmpwm'
          /\ results_pmpwm'[Head(evq).motor] = <<Head(evq).w, Head(evq).motor>>]_vars

\* the slot of a replaced worker's motorFinished has marked the motor completed and
\* has failed on the lookup in the new worker, which does not own the motor
C37_LookupFails ==
    /\ gui = "crashed" /\ cur # 0
    /\ \E m \in motors_completed :
          /\ m \notin DOMAIN results_pmpwm /\ m \notin DOMAIN W(cur).results
          /\ \E w \in DOMAIN workers : w # cur /\ m \in DOMAIN W(w).results /\ W(w).stop

\* the motors worker w has still to finish
Ahead(w) == {W(w).motors[i] : i \in {k \in DOMAIN W(w).motors : k >= W(w).mi}}

\* motor m is in the list of the running worker or in the pending queue
Queued(m) ==
    \/ m \in Range(pending)
    \/ cur # 0 /\ isRunning(cur) /\ m \in Ahead(cur)

\* C38: no selected motor is dropped: as long as the operator has not pressed Stop,
\* a motor that is not completed is in the list of the running worker or in the
\* pending queue, whatever rewrite, training, resume and 'finished' events came.
C38_NoMotorDropped ==
    (Idle /\ probeOpen) =>
        \A m \in Range(motors_all) : m \in motors_completed \/ Queued(m)

\* the operator has stopped the discrimination test: _stop_test has closed the
\* probe window and the main menu is shown
Stopped == hyps.kind = "pmpwm" /\ ~probeOpen /\ res = <<>>

\* the GUI thread runs the slot of a 'finished' signal
FinishedSlot ==
    /\ gui = "idle" /\ evq # <<>> /\ Head(evq).sig = "finished"
    /\ evq' = Tail(evq)

\* C39: after the operator has stopped the discrimination test no discrimination
\* worker is launched: a pending queue left over is never launched by a 'finished'
\* event that arrives after the stop.
C39_NoLaunchAfterStop ==
    [][(Stopped /\ FinishedSlot) => Len(workers') = Len(workers)]_vars

\* C39, its other half: and no stimulus is presented after the stop
C39_NoStimulusAfterStop ==
    [][Stopped => \A w \in DOMAIN workers : workers'[w].stims = W(w).stims]_vars

\* a worker launched by the slot of 'finished' runs after the stop
C39_LaunchedAfterStop ==
    /\ Stopped /\ cur # 0 /\ isRunning(cur)
    /\ W(cur).by = "finished" /\ W(cur).stims > 0

\* the motors with a non-zero intensity
Energized == {m \in Motors : port[m] # 0}

\* C40: during the spatial test at most one motor has a non-zero intensity at any
\* time: in pairs mode the two motors of a region are energized one after the
\* other and never together, and every motor is at zero when the response wait
\* begins.
C40_OneMotorAtATime ==
    /\ Cardinality(Energized) <= 1
    /\ \A w \in DOMAIN workers :
          /\ W(w).pc = "sp_poll" => port = Zeros
          /\ W(w).pc = "sp_sleep" =>
                Energized \subseteq {SpatialMotors(hyps, W(w).seq[W(w).si])[W(w).ei]}

\* pairs mode: the second motor of the region is energized, the first one is off
C40_SecondOfPair ==
    \E w \in DOMAIN workers :
        /\ hyps.spatial_mode = "pairs" /\ W(w).pc = "sp_sleep" /\ W(w).ei = 2
        /\ port[W(w).seq[W(w).si] + 1] # 0 /\ port[W(w).seq[W(w).si]] = 0
====
